---- MODULE Spec2Model ----
(***************************************************************************)
(* Model of the Nimzo / FlashMart backend.                                 *)
(*                                                                         *)
(*   src/server.py  the database-backed snapshot: every handler is an      *)
(*                  async function whose awaits (one per database call)    *)
(*                  are the points where other requests may run;           *)
(*   src/main.py    the in-memory snapshot: CARTS and ORDERS are process-  *)
(*                  wide Python objects.                                   *)
(*                                                                         *)
(* A handler is a step function on (store, request): one application is    *)
(* the code up to and including its next database call.  Run applies the   *)
(* steps until the handler returns: that is the whole handler, used by the *)
(* sequential specification Spec.  The concurrent specifications apply one *)
(* step at a time to the requests in flight.                               *)
(*                                                                         *)
(* Prices are integers (the seeded catalog holds integers only); a         *)
(* uuid4() is a fresh value, its first 8 characters are not.               *)
(***************************************************************************)
EXTENDS Integers, Sequences, FiniteSets, TLC

VARIABLES
    prog,        \* which snapshot runs: "server" or "main"
    dbUsers,     \* server.py db.users: user id -> [is_admin, addresses]
    dbCarts,     \* server.py db.carts: sequence of [user_id, items] in insertion order
    dbOrders,    \* server.py db.orders: sequence of order documents in insertion order
    dbProducts,  \* server.py db.products: product id -> [present, name, price, mrp, is_available]
    clock,       \* server.py datetime.now(): a logical time
    CARTS,       \* main.py CARTS: user id -> [present, items]
    ORDERS,      \* main.py ORDERS: sequence of order dicts
    reqs,        \* the requests in flight (concurrent specifications), slot -> request
    last,        \* the request that returned last, with its response
    sinceAdd,    \* history: orders created for a user since that user's last successful add
    added,       \* history (concurrent specifications): quantity of the adds that returned success
    nreq         \* history: number of requests made so far

vars == <<prog, dbUsers, dbCarts, dbOrders, dbProducts, clock, CARTS, ORDERS,
          reqs, last, sinceAdd, added, nreq>>

-----------------------------------------------------------------------------
(* Bounds of the model.                                                    *)

MaxQty == 2        \* quantities passed to add and update are at most this
MaxOrders == 2     \* orders stored per snapshot
MaxAddr == 1       \* saved addresses per user
MaxReqs == 4       \* requests per behaviour
MaxInFlight == 2   \* requests in flight at once (concurrent specifications)
SeededOrders == 501  \* orders placed before the listing specification starts

(* The callers.  u1 and u2 are registered users, adm is the seeded admin,  *)
(* u3 registers while the model runs, anon presents no valid credential.   *)
UserIds == {"u1", "u2", "adm", "u3"}
Shoppers == {"u1", "u2"}
NewUser == "u3"               \* the identity register creates
Anon == "anon"
AdminCallers == {"adm", "u1", Anon}

ProductIds == {"p1", "p2"}
NewProduct == "p3"            \* the str(uuid4()) create_product draws
CatalogIds == ProductIds \cup {NewProduct}
OrderIds == {"0A", "0B"}      \* values of str(uuid4())[:8]
AddrIds == 1..(2 * MaxAddr)   \* values of str(uuid4()) for addresses
Slots == 1..MaxInFlight
AddrNames == {"home", "work"}
PaymentMethods == {"COD"}
Ticks == {1}                 \* how far datetime.now() has moved on when an order is built

(* ProductCreate payloads an admin sends to update_product. *)
ProductPayloads ==
    {[name |-> "n1", price |-> 2, mrp |-> 3, is_available |-> TRUE],
     [name |-> "n2", price |-> 3, mrp |-> 4, is_available |-> TRUE]}

-----------------------------------------------------------------------------
(* Sequences.                                                              *)

\* The first of the indices I of the elements that pass a filter, 0 when none does.
FirstIndex(I) == IF I = {} THEN 0 ELSE CHOOSE i \in I : \A j \in I : i <= j

RECURSIVE SumSeq(_)
SumSeq(s) == IF s = <<>> THEN 0 ELSE Head(s) + SumSeq(Tail(s))

-----------------------------------------------------------------------------
(* The store a handler works on, and what a step function returns.         *)

Store ==
    [users |-> dbUsers, carts |-> dbCarts, orders |-> dbOrders,
     products |-> dbProducts, clock |-> clock, CARTS |-> CARTS, ORDERS |-> ORDERS]

NoUser == [id |-> "", is_admin |-> FALSE, addresses |-> <<>>]

\* A request as it enters its handler: the dependencies have not run yet.
NewReq(op, caller) ==
    [op |-> op, caller |-> caller, pc |-> "auth", code |-> 0, detail |-> "",
     user |-> NoUser]

\* raise HTTPException(code, detail), or return with code 200
Return(S, r, code, detail) ==
    [S |-> S, r |-> [r EXCEPT !.pc = "done", !.code = code, !.detail = detail]]

Goto(S, r, pc) == [S |-> S, r |-> [r EXCEPT !.pc = pc]]

-----------------------------------------------------------------------------
(* server.py: identity.                                                    *)

\* get_current_user: the token decodes to a user_id and db.users holds it.
get_current_user(S, r, next) ==
    IF r.caller \notin UserIds
    THEN Return(S, r, 401, "Invalid token")
    ELSE IF ~S.users[r.caller].present
    THEN Return(S, r, 401, "User not found")
    ELSE Goto(S, [r EXCEPT !.user = [id |-> r.caller,
                                     is_admin |-> S.users[r.caller].is_admin,
                                     addresses |-> S.users[r.caller].addresses]], next)

\* get_admin_user: get_current_user, then the is_admin flag of the user found.
get_admin_user(S, r, next) ==
    LET got == get_current_user(S, r, next)
    IN  IF got.r.pc = "done" THEN got
        ELSE IF ~got.r.user.is_admin
        THEN Return(S, r, 403, "Admin access required")
        ELSE got

-----------------------------------------------------------------------------
(* server.py: the db.carts calls the handlers make.                        *)

HasLine(items, p) == \E k \in 1..Len(items) : items[k].product_id = p

\* db.carts.find_one({"user_id": u})
carts_find_one(carts, u) == FirstIndex({n \in 1..Len(carts) : carts[n].user_id = u})

\* db.carts.find_one({"user_id": u, "items.product_id": p})
carts_find_line(carts, u, p) ==
    FirstIndex({n \in 1..Len(carts) : carts[n].user_id = u /\ HasLine(carts[n].items, p)})

\* db.carts.insert_one({"user_id": u, "items": []})
carts_insert_one(carts, u) == Append(carts, [user_id |-> u, items |-> <<>>])

\* Mutant: $set in place of $inc.
carts_inc_quantity_sets(carts, u, p, q) ==
    LET i == carts_find_line(carts, u, p)
    IN  IF i = 0 THEN carts
        ELSE LET k == FirstIndex({n \in 1..Len(carts[i].items) : carts[i].items[n].product_id = p})
             IN  [carts EXCEPT ![i].items[k].quantity = q]

\* update_one({"user_id": u, "items.product_id": p}, {"$inc": {"items.$.quantity": q}})
carts_inc_quantity(carts, u, p, q) ==
    LET i == carts_find_line(carts, u, p)
    IN  IF i = 0 THEN carts
        ELSE LET k == FirstIndex({n \in 1..Len(carts[i].items) : carts[i].items[n].product_id = p})
             IN  [carts EXCEPT ![i].items[k].quantity = @ + q]

\* update_one({"user_id": u}, {"$push": {"items": {"product_id": p, "quantity": q}}})
carts_push_item(carts, u, p, q) ==
    LET i == carts_find_one(carts, u)
    IN  IF i = 0 THEN carts
        ELSE [carts EXCEPT ![i].items = Append(@, [product_id |-> p, quantity |-> q])]

\* Mutant: $pop of the first line in place of the $pull of the lines of p.
carts_pull_item_first(carts, u, p) ==
    LET i == carts_find_one(carts, u)
    IN  IF i = 0 \/ carts[i].items = <<>> THEN carts
        ELSE [carts EXCEPT ![i].items = Tail(@)]

\* update_one({"user_id": u}, {"$pull": {"items": {"product_id": p}}})
carts_pull_item(carts, u, p) ==
    LET i == carts_find_one(carts, u)
    IN  IF i = 0 THEN carts
        ELSE [carts EXCEPT ![i].items = SelectSeq(@, LAMBDA it : it.product_id # p)]

\* Mutant: $inc in place of $set.
carts_set_quantity_incs(carts, u, p, q) ==
    LET i == carts_find_line(carts, u, p)
    IN  IF i = 0 THEN carts
        ELSE LET k == FirstIndex({n \in 1..Len(carts[i].items) : carts[i].items[n].product_id = p})
             IN  [carts EXCEPT ![i].items[k].quantity = @ + q]

\* update_one({"user_id": u, "items.product_id": p}, {"$set": {"items.$.quantity": q}})
carts_set_quantity(carts, u, p, q) ==
    LET i == carts_find_line(carts, u, p)
    IN  IF i = 0 THEN carts
        ELSE LET k == FirstIndex({n \in 1..Len(carts[i].items) : carts[i].items[n].product_id = p})
             IN  [carts EXCEPT ![i].items[k].quantity = q]

\* Mutant: update_many({}, {"$set": {"items": []}}), the filter on the user is lost.
carts_set_empty_all(carts, u) == [i \in 1..Len(carts) |-> [carts[i] EXCEPT !.items = <<>>]]

\* update_one({"user_id": u}, {"$set": {"items": []}})
carts_set_empty(carts, u) ==
    LET i == carts_find_one(carts, u)
    IN  IF i = 0 THEN carts ELSE [carts EXCEPT ![i].items = <<>>]

-----------------------------------------------------------------------------
(* server.py: cart handlers.                                               *)

\* Mutant: find_one({"id": ..., "is_available": True}), an unavailable product is not found.
add_to_cart_available_only(S, r) ==
    CASE r.pc = "auth" -> get_current_user(S, r, "find_product")
      [] r.pc = "find_product" ->
            IF ~S.products[r.product_id].present \/ ~S.products[r.product_id].is_available
            THEN Return(S, r, 404, "Product not found")
            ELSE Goto(S, r, "find_cart")
      [] r.pc = "find_cart" ->
            IF carts_find_one(S.carts, r.user.id) = 0
            THEN Goto(S, r, "insert_cart")
            ELSE Goto(S, r, "find_existing")
      [] r.pc = "insert_cart" ->
            Goto([S EXCEPT !.carts = carts_insert_one(@, r.user.id)], r, "find_existing")
      [] r.pc = "find_existing" ->
            IF carts_find_line(S.carts, r.user.id, r.product_id) # 0
            THEN Goto(S, r, "inc")
            ELSE Goto(S, r, "push")
      [] r.pc = "inc" ->
            Return([S EXCEPT !.carts = carts_inc_quantity(@, r.user.id, r.product_id, r.quantity)],
                   r, 200, "Added to cart")
      [] r.pc = "push" ->
            Return([S EXCEPT !.carts = carts_push_item(@, r.user.id, r.product_id, r.quantity)],
                   r, 200, "Added to cart")

\* POST /cart/add
add_to_cart(S, r) ==
    CASE r.pc = "auth" -> get_current_user(S, r, "find_product")
      [] r.pc = "find_product" ->
            IF ~S.products[r.product_id].present
            THEN Return(S, r, 404, "Product not found")
            ELSE Goto(S, r, "find_cart")
      [] r.pc = "find_cart" ->
            IF carts_find_one(S.carts, r.user.id) = 0
            THEN Goto(S, r, "insert_cart")
            ELSE Goto(S, r, "find_existing")
      [] r.pc = "insert_cart" ->
            Goto([S EXCEPT !.carts = carts_insert_one(@, r.user.id)], r, "find_existing")
      [] r.pc = "find_existing" ->
            IF carts_find_line(S.carts, r.user.id, r.product_id) # 0
            THEN Goto(S, r, "inc")
            ELSE Goto(S, r, "push")
      [] r.pc = "inc" ->
            Return([S EXCEPT !.carts = carts_inc_quantity(@, r.user.id, r.product_id, r.quantity)],
                   r, 200, "Added to cart")
      [] r.pc = "push" ->
            Return([S EXCEPT !.carts = carts_push_item(@, r.user.id, r.product_id, r.quantity)],
                   r, 200, "Added to cart")

\* PUT /cart/update
update_cart_item(S, r) ==
    CASE r.pc = "auth" -> get_current_user(S, r, "update")
      [] r.pc = "update" ->
            IF r.quantity <= 0
            THEN Return([S EXCEPT !.carts = carts_pull_item(@, r.user.id, r.product_id)],
                        r, 200, "Cart updated")
            ELSE Return([S EXCEPT !.carts = carts_set_quantity(@, r.user.id, r.product_id, r.quantity)],
                        r, 200, "Cart updated")

\* DELETE /cart/remove/{product_id}
remove_from_cart(S, r) ==
    CASE r.pc = "auth" -> get_current_user(S, r, "pull")
      [] r.pc = "pull" ->
            Return([S EXCEPT !.carts = carts_pull_item(@, r.user.id, r.product_id)],
                   r, 200, "Removed from cart")

\* DELETE /cart/clear
clear_cart(S, r) ==
    CASE r.pc = "auth" -> get_current_user(S, r, "clear")
      [] r.pc = "clear" ->
            Return([S EXCEPT !.carts = carts_set_empty(@, r.user.id)], r, 200, "Cart cleared")

\* The line get_cart answers for a cart line whose product is found
\* (unit and image_url are not carried by the model's products).
cart_item_response(item, product) ==
    [product_id |-> item.product_id, name |-> product.name, price |-> product.price,
     mrp |-> product.mrp, quantity |-> item.quantity,
     subtotal |-> product.price * item.quantity]

\* Mutant: a line whose product is not found fails the request.
get_cart_strict(S, r) ==
    CASE r.pc = "auth" -> get_current_user(S, r, "find_cart")
      [] r.pc = "find_cart" ->
            LET i == carts_find_one(S.carts, r.user.id)
            IN  IF i = 0 THEN Goto(S, [r EXCEPT !.cart_items = <<>>], "insert_cart")
                ELSE Goto(S, [r EXCEPT !.cart_items = S.carts[i].items, !.idx = 1],
                          "find_product")
      [] r.pc = "insert_cart" ->
            Goto([S EXCEPT !.carts = carts_insert_one(@, r.user.id)],
                 [r EXCEPT !.idx = 1], "find_product")
      [] r.pc = "find_product" ->
            IF r.idx > Len(r.cart_items)
            THEN Return(S, [r EXCEPT !.body = [items |-> r.items, total |-> r.total,
                                               item_count |-> Len(r.items),
                                               savings |-> r.savings]],
                        200, "")
            ELSE LET item == r.cart_items[r.idx]
                     product == S.products[item.product_id]
                 IN  IF product.present
                     THEN Goto(S, [r EXCEPT !.items = Append(@, cart_item_response(item, product)),
                                            !.total = @ + product.price * item.quantity,
                                            !.savings = @ + (product.mrp * item.quantity
                                                             - product.price * item.quantity),
                                            !.idx = @ + 1], "find_product")
                     ELSE Return(S, r, 404, "Product not found")

\* GET /cart
get_cart(S, r) ==
    CASE r.pc = "auth" -> get_current_user(S, r, "find_cart")
      [] r.pc = "find_cart" ->
            LET i == carts_find_one(S.carts, r.user.id)
            IN  IF i = 0 THEN Goto(S, [r EXCEPT !.cart_items = <<>>], "insert_cart")
                ELSE Goto(S, [r EXCEPT !.cart_items = S.carts[i].items, !.idx = 1],
                          "find_product")
      [] r.pc = "insert_cart" ->
            Goto([S EXCEPT !.carts = carts_insert_one(@, r.user.id)],
                 [r EXCEPT !.idx = 1], "find_product")
      [] r.pc = "find_product" ->
            IF r.idx > Len(r.cart_items)
            THEN Return(S, [r EXCEPT !.body = [items |-> r.items, total |-> r.total,
                                               item_count |-> Len(r.items),
                                               savings |-> r.savings]],
                        200, "")
            ELSE LET item == r.cart_items[r.idx]
                     product == S.products[item.product_id]
                 IN  IF product.present
                     THEN Goto(S, [r EXCEPT !.items = Append(@, cart_item_response(item, product)),
                                            !.total = @ + product.price * item.quantity,
                                            !.savings = @ + (product.mrp * item.quantity
                                                             - product.price * item.quantity),
                                            !.idx = @ + 1], "find_product")
                     ELSE Goto(S, [r EXCEPT !.idx = @ + 1], "find_product")

\* POST /auth/register.  The user's uuid and email are one identity here; a
\* registered email is an identity db.users holds.
register(S, r) ==
    CASE r.pc = "auth" ->
            IF S.users[r.caller].present
            THEN Return(S, r, 400, "Email already registered")
            ELSE Goto(S, r, "insert_user")
      [] r.pc = "insert_user" ->
            Goto([S EXCEPT !.users[r.caller] =
                      [present |-> TRUE, is_admin |-> FALSE, addresses |-> <<>>]],
                 r, "insert_cart")
      [] r.pc = "insert_cart" ->
            Return([S EXCEPT !.carts = carts_insert_one(@, r.caller)], r, 200, "")

-----------------------------------------------------------------------------
(* server.py: orders.                                                      *)

NoAddress == [id |-> 0, full_name |-> "", is_default |-> FALSE]

NoOrder ==
    [id |-> "", user_id |-> "", items |-> <<>>, address |-> [full_name |-> ""],
     total |-> 0, status |-> "", payment_method |-> "", created_at |-> 0]

\* Mutant: the subtotal forgets the quantity.
order_item_unit_subtotal(item, product) ==
    [product_id |-> item.product_id, name |-> product.name, price |-> product.price,
     quantity |-> item.quantity, subtotal |-> product.price]

\* The order line create_order builds from a cart line and the product found.
order_item(item, product) ==
    [product_id |-> item.product_id, name |-> product.name, price |-> product.price,
     quantity |-> item.quantity, subtotal |-> product.price * item.quantity]

\* The document create_order builds once the loop over the cart is over.
\* estimated_delivery is created_at + 15 minutes and is left out.
order_doc(r, order_items, total, now) ==
    [id |-> r.new_id, user_id |-> r.user.id, items |-> order_items,
     address |-> [full_name |-> r.address.full_name],
     total |-> total, status |-> "confirmed",
     payment_method |-> r.payment_method, created_at |-> now]

\* Mutant: an address that is not found is not an error.
create_order_find_cart_unchecked(S, r) ==
    LET i == carts_find_one(S.carts, r.user.id)
        items == IF i = 0 THEN <<>> ELSE S.carts[i].items
        a == FirstIndex({n \in 1..Len(r.user.addresses) : r.user.addresses[n].id = r.address_id})
    IN  IF items = <<>> THEN Return(S, r, 400, "Cart is empty")
        ELSE Goto(S, [r EXCEPT !.cart_items = items,
                               !.address = IF a = 0 THEN NoAddress ELSE r.user.addresses[a],
                               !.idx = 1], "find_product")

\* create_order, lines 482-494: the cart and the address
create_order_find_cart(S, r) ==
    LET i == carts_find_one(S.carts, r.user.id)
        items == IF i = 0 THEN <<>> ELSE S.carts[i].items
        a == FirstIndex({n \in 1..Len(r.user.addresses) : r.user.addresses[n].id = r.address_id})
    IN  IF items = <<>> THEN Return(S, r, 400, "Cart is empty")
        ELSE IF a = 0 THEN Return(S, r, 400, "Address not found")
        ELSE Goto(S, [r EXCEPT !.cart_items = items,
                               !.address = r.user.addresses[a],
                               !.idx = 1], "find_product")

\* Mutant: an order that would have no item is refused as an empty cart.
create_order_find_product_needs_items(S, r) ==
    LET item == r.cart_items[r.idx]
        product == S.products[item.product_id]
        order_items == IF product.present
                       THEN Append(r.order_items, order_item(item, product))
                       ELSE r.order_items
        total == IF product.present
                 THEN r.total + product.price * item.quantity
                 ELSE r.total
        now == S.clock + r.tick
    IN  IF r.idx < Len(r.cart_items)
        THEN Goto(S, [r EXCEPT !.order_items = order_items, !.total = total,
                               !.idx = @ + 1], "find_product")
        ELSE IF order_items = <<>> THEN Return(S, r, 400, "Cart is empty")
        ELSE Goto([S EXCEPT !.clock = now],
                  [r EXCEPT !.order_items = order_items, !.total = total,
                            !.order_doc = order_doc(r, order_items, total, now)],
                  "insert")

\* create_order, lines 500-535: one turn of the loop over the cart's lines,
\* and after the last one the order document
create_order_find_product(S, r) ==
    LET item == r.cart_items[r.idx]
        product == S.products[item.product_id]
        order_items == IF product.present
                       THEN Append(r.order_items, order_item(item, product))
                       ELSE r.order_items
        total == IF product.present
                 THEN r.total + product.price * item.quantity
                 ELSE r.total
        now == S.clock + r.tick
    IN  IF r.idx < Len(r.cart_items)
        THEN Goto(S, [r EXCEPT !.order_items = order_items, !.total = total,
                               !.idx = @ + 1], "find_product")
        ELSE Goto([S EXCEPT !.clock = now],
                  [r EXCEPT !.order_items = order_items, !.total = total,
                            !.order_doc = order_doc(r, order_items, total, now)],
                  "insert")

\* Mutant: the cart is emptied where the order should be stored.
create_order_insert_clears(S, r) ==
    Goto([S EXCEPT !.carts = carts_set_empty(@, r.user.id)], r, "clear")

\* create_order, line 537: db.orders.insert_one(order_doc)
create_order_insert(S, r) ==
    Goto([S EXCEPT !.orders = Append(@, r.order_doc)], r, "clear")

\* Mutant: the order is returned and the cart is left as it is.
create_order_clear_skipped(S, r) == Return(S, r, 200, "")

\* create_order, lines 540-542: the cart is emptied and the order returned
create_order_clear(S, r) ==
    Return([S EXCEPT !.carts = carts_set_empty(@, r.user.id)], r, 200, "")

\* POST /orders
create_order(S, r) ==
    CASE r.pc = "auth" -> get_current_user(S, r, "find_cart")
      [] r.pc = "find_cart" -> create_order_find_cart(S, r)
      [] r.pc = "find_product" -> create_order_find_product(S, r)
      [] r.pc = "insert" -> create_order_insert(S, r)
      [] r.pc = "clear" -> create_order_clear(S, r)

valid_statuses == {"confirmed", "preparing", "out_for_delivery", "delivered", "cancelled"}

\* Mutant: the update replaces the document instead of setting one field.
update_order_status_replaces(S, r) ==
    CASE r.pc = "auth" -> get_admin_user(S, r, "update")
      [] r.pc = "update" ->
            LET i == FirstIndex({n \in 1..Len(S.orders) : S.orders[n].id = r.order_id})
            IN  IF r.status \notin valid_statuses
                THEN Return(S, r, 400, "Invalid status")
                ELSE IF i = 0 THEN Return(S, r, 404, "Order not found")
                ELSE Return([S EXCEPT !.orders[i] = [NoOrder EXCEPT !.id = r.order_id,
                                                                    !.status = r.status]],
                            r, 200, "Order status updated")

\* Mutant: a status earlier in the list than the order's own is refused.
update_order_status_forward_only(S, r) ==
    CASE r.pc = "auth" -> get_admin_user(S, r, "update")
      [] r.pc = "update" ->
            LET i == FirstIndex({n \in 1..Len(S.orders) : S.orders[n].id = r.order_id})
                chain == <<"confirmed", "preparing", "out_for_delivery", "delivered", "cancelled">>
                pos(st) == FirstIndex({k \in 1..Len(chain) : chain[k] = st})
            IN  IF r.status \notin valid_statuses
                THEN Return(S, r, 400, "Invalid status")
                ELSE IF i = 0 THEN Return(S, r, 404, "Order not found")
                ELSE IF pos(r.status) < pos(S.orders[i].status)
                THEN Return(S, r, 400, "Invalid status")
                ELSE Return([S EXCEPT !.orders[i].status = r.status], r, 200,
                            "Order status updated")

\* PUT /admin/orders/{order_id}/status
update_order_status(S, r) ==
    CASE r.pc = "auth" -> get_admin_user(S, r, "update")
      [] r.pc = "update" ->
            LET i == FirstIndex({n \in 1..Len(S.orders) : S.orders[n].id = r.order_id})
            IN  IF r.status \notin valid_statuses
                THEN Return(S, r, 400, "Invalid status")
                ELSE IF i = 0 THEN Return(S, r, 404, "Order not found")
                ELSE Return([S EXCEPT !.orders[i].status = r.status], r, 200,
                            "Order status updated")

\* The number of documents a listing asks the cursor for: to_list(100), to_list(500).
get_orders_limit == 100
get_all_orders_limit == 500

\* find(...).sort("created_at", -1) on the documents docs.  The order of two
\* documents of one created_at is the database's choice; every order of the
\* model has a created_at of its own.
sort_created_at_desc(docs) == SortSeq(docs, LAMBDA a, b : a.created_at > b.created_at)

\* cursor.to_list(length)
to_list(docs, length) == IF Len(docs) <= length THEN docs ELSE SubSeq(docs, 1, length)

\* Mutant: find({}) in place of find({"user_id": user["id"]}).
get_orders_unfiltered(S, r) ==
    CASE r.pc = "auth" -> get_current_user(S, r, "find")
      [] r.pc = "find" ->
            Return(S, [body |-> to_list(sort_created_at_desc(S.orders), get_orders_limit)] @@ r,
                   200, "")

\* GET /orders
get_orders(S, r) ==
    CASE r.pc = "auth" -> get_current_user(S, r, "find")
      [] r.pc = "find" ->
            LET mine == SelectSeq(S.orders, LAMBDA o : o.user_id = r.user.id)
            IN  Return(S, [body |-> to_list(sort_created_at_desc(mine), get_orders_limit)] @@ r,
                       200, "")

\* Mutant: an admin finds the order whoever placed it.
get_order_admin_sees(S, r) ==
    CASE r.pc = "auth" -> get_current_user(S, r, "find")
      [] r.pc = "find" ->
            LET i == FirstIndex({n \in 1..Len(S.orders) :
                                    /\ S.orders[n].id = r.order_id
                                    /\ (S.orders[n].user_id = r.user.id \/ r.user.is_admin)})
            IN  IF i = 0 THEN Return(S, r, 404, "Order not found")
                ELSE Return(S, [body |-> S.orders[i]] @@ r, 200, "")

\* GET /orders/{order_id}
get_order(S, r) ==
    CASE r.pc = "auth" -> get_current_user(S, r, "find")
      [] r.pc = "find" ->
            LET i == FirstIndex({n \in 1..Len(S.orders) :
                                    S.orders[n].id = r.order_id /\ S.orders[n].user_id = r.user.id})
            IN  IF i = 0 THEN Return(S, r, 404, "Order not found")
                ELSE Return(S, [body |-> S.orders[i]] @@ r, 200, "")

\* GET /admin/orders
get_all_orders(S, r) ==
    CASE r.pc = "auth" -> get_admin_user(S, r, "find")
      [] r.pc = "find" ->
            Return(S, [body |-> to_list(sort_created_at_desc(S.orders), get_all_orders_limit)] @@ r,
                   200, "")

-----------------------------------------------------------------------------
(* server.py: catalog and addresses.                                       *)

NoProduct == [present |-> FALSE, name |-> "", price |-> 0, mrp |-> 0, is_available |-> FALSE]

\* int(x) of Python for the quotient a / b: the fraction is dropped, towards zero.
IntDiv(a, b) ==
    LET abs(x) == IF x < 0 THEN -x ELSE x
        q == abs(a) \div abs(b)
    IN  IF (a < 0) = (b < 0) THEN q ELSE -q

\* The expression `... if p["mrp"] > p["price"] else 0` divides by mrp.
discount_raises(price, mrp) == mrp > price /\ mrp = 0

\* int(((mrp - price) / mrp) * 100) if mrp > price else 0, in exact
\* arithmetic (the rounding of the binary floats is not modelled); evaluated
\* only where discount_raises is false.
discount_percent(price, mrp) ==
    IF mrp > price THEN IntDiv((mrp - price) * 100, mrp) ELSE 0

\* ProductResponse(**product, discount_percent=discount), or the 500 of the
\* ZeroDivisionError the expression raises.
product_response(S, r, id, product) ==
    IF discount_raises(product.price, product.mrp)
    THEN Return(S, r, 500, "Internal Server Error")
    ELSE Return(S, [body |-> [id |-> id, price |-> product.price, mrp |-> product.mrp,
                              is_available |-> product.is_available,
                              discount_percent |->
                                  discount_percent(product.price, product.mrp)]] @@ r,
                200, "")

\* The document db.products holds for a ProductCreate payload.
product_doc(payload) ==
    [present |-> TRUE, name |-> payload.name, price |-> payload.price,
     mrp |-> payload.mrp, is_available |-> payload.is_available]

\* The products in the order find() returns them.
CatalogOrder == <<"p1", "p2", "p3">>

\* GET /products: the available products, each with its discount.  The
\* category and search filters are not used; limit stays above the catalog.
get_products(S, r) ==
    LET found == SelectSeq(CatalogOrder,
                           LAMBDA p : S.products[p].present /\ S.products[p].is_available)
    IN  IF \E k \in 1..Len(found) :
               discount_raises(S.products[found[k]].price, S.products[found[k]].mrp)
        THEN Return(S, r, 500, "Internal Server Error")
        ELSE Return(S, [body |-> [k \in 1..Len(found) |->
                                    [id |-> found[k],
                                     discount_percent |->
                                         discount_percent(S.products[found[k]].price,
                                                          S.products[found[k]].mrp)]]] @@ r,
                    200, "")

\* GET /products/{product_id}
get_product(S, r) ==
    IF ~S.products[r.product_id].present
    THEN Return(S, r, 404, "Product not found")
    ELSE product_response(S, r, r.product_id, S.products[r.product_id])

\* POST /admin/products
create_product(S, r) ==
    CASE r.pc = "auth" -> get_admin_user(S, r, "insert")
      [] r.pc = "insert" ->
            Goto([S EXCEPT !.products[r.product_id] = product_doc(r.payload)], r, "respond")
      [] r.pc = "respond" -> product_response(S, r, r.product_id, product_doc(r.payload))

\* PUT /admin/products/{product_id}
update_product(S, r) ==
    CASE r.pc = "auth" -> get_admin_user(S, r, "update")
      [] r.pc = "update" ->
            IF ~S.products[r.product_id].present
            THEN Return(S, r, 404, "Product not found")
            ELSE product_response([S EXCEPT !.products[r.product_id] = product_doc(r.payload)],
                                  r, r.product_id, product_doc(r.payload))

\* DELETE /admin/products/{product_id}
delete_product(S, r) ==
    CASE r.pc = "auth" -> get_admin_user(S, r, "delete")
      [] r.pc = "delete" ->
            Return([S EXCEPT !.products[r.product_id] = NoProduct], r, 200, "Product deleted")

\* update_one({"id": u}, {"$set": {"addresses.$[].is_default": False}})
users_unset_default(users, u) ==
    [users EXCEPT ![u].addresses =
        [k \in 1..Len(@) |-> [@[k] EXCEPT !.is_default = FALSE]]]

\* POST /addresses
add_address(S, r) ==
    CASE r.pc = "auth" -> get_current_user(S, r, "body")
      [] r.pc = "body" ->
            LET first_or_default == r.is_default \/ Len(r.user.addresses) = 0
                doc == [id |-> r.new_addr_id, full_name |-> r.full_name,
                        is_default |-> first_or_default]
            IN  IF first_or_default
                THEN Goto([S EXCEPT !.users = users_unset_default(@, r.user.id)],
                          [r EXCEPT !.address = doc], "push")
                ELSE Return([S EXCEPT !.users[r.user.id].addresses = Append(@, doc)],
                            [r EXCEPT !.address = doc], 200, "")
      [] r.pc = "push" ->
            Return([S EXCEPT !.users[r.user.id].addresses = Append(@, r.address)], r, 200, "")

\* DELETE /addresses/{address_id}
delete_address(S, r) ==
    CASE r.pc = "auth" -> get_current_user(S, r, "pull")
      [] r.pc = "pull" ->
            Return([S EXCEPT !.users[r.user.id].addresses =
                        SelectSeq(@, LAMBDA a : a.id # r.address_id)],
                   r, 200, "Address deleted")

-----------------------------------------------------------------------------
(* main.py: the in-memory snapshot.  A handler is a plain function; it is   *)
(* one step, except add_to_cart, whose scan of the cart, read of the       *)
(* quantity and write of the quantity are the steps two worker threads     *)
(* can interleave, and place_order, whose ORDERS.append and rebinding of   *)
(* CARTS[user_id] are two steps.                                           *)
(* place_order stores cart["items"] itself in the order and then rebinds   *)
(* CARTS[user_id] to a new dict, so no later handler reaches that list     *)
(* through CARTS: the order's items are modelled as a value.               *)

MainProductIds == {1, 2}

\* PRODUCTS (the image is left out)
PRODUCTS ==
    (1 :> [name |-> "Aashirvaad Atta 5kg", price |-> 320, in_stock |-> TRUE]) @@
    (2 :> [name |-> "Amul Milk 500ml", price |-> 28, in_stock |-> TRUE]) @@
    (3 :> [name |-> "Apple (1kg)", price |-> 140, in_stock |-> TRUE]) @@
    (4 :> [name |-> "Tomato (1kg)", price |-> 40, in_stock |-> FALSE])

\* get_current_user of main.py: any token that decodes names a user.
main_get_current_user(S, r, next) ==
    IF r.caller \notin Shoppers
    THEN Return(S, r, 401, "Invalid token")
    ELSE Goto(S, [r EXCEPT !.user = [id |-> r.caller, is_admin |-> FALSE,
                                     addresses |-> <<>>]], next)

\* CARTS.setdefault(user_id, {"items": []})
CARTS_setdefault(C, u) == IF C[u].present THEN C ELSE [C EXCEPT ![u].present = TRUE]

\* POST /api/cart/add
main_add_to_cart(S, r) ==
    CASE r.pc = "auth" ->
            LET got == main_get_current_user(S, r, "scan")
            IN  IF got.r.pc = "done" THEN got
                ELSE IF r.product_id \notin DOMAIN PRODUCTS
                THEN Return(S, r, 404, "Product not found")
                ELSE [S |-> [S EXCEPT !.CARTS = CARTS_setdefault(@, r.caller)], r |-> got.r]
      [] r.pc = "scan" ->
            LET items == S.CARTS[r.user.id].items
                k == FirstIndex({n \in 1..Len(items) : items[n].product_id = r.product_id})
            IN  IF k # 0 THEN Goto(S, [r EXCEPT !.idx = k], "load")
                ELSE Goto(S, r, "append")
      [] r.pc = "load" ->
            Goto(S, [r EXCEPT !.loaded = S.CARTS[r.user.id].items[r.idx].quantity], "store")
      [] r.pc = "store" ->
            Return([S EXCEPT !.CARTS[r.user.id].items[r.idx].quantity = r.loaded + r.quantity],
                   r, 200, "")
      [] r.pc = "append" ->
            Return([S EXCEPT !.CARTS[r.user.id].items =
                        Append(@, [product_id |-> r.product_id,
                                   name |-> PRODUCTS[r.product_id].name,
                                   price |-> PRODUCTS[r.product_id].price,
                                   quantity |-> r.quantity])],
                   r, 200, "")

\* PUT /api/cart/update
main_update_cart(S, r) ==
    LET got == main_get_current_user(S, r, "done")
        C == CARTS_setdefault(S.CARTS, r.caller)
    IN  IF got.r.code = 401 THEN got
        ELSE Return([S EXCEPT !.CARTS = [C EXCEPT ![r.caller].items =
                        [k \in 1..Len(@) |->
                            IF @[k].product_id = r.product_id
                            THEN [@[k] EXCEPT !.quantity = r.quantity]
                            ELSE @[k]]]],
                    got.r, 200, "")

\* DELETE /api/cart/remove/{product_id}
main_remove_cart_item(S, r) ==
    LET got == main_get_current_user(S, r, "done")
        C == CARTS_setdefault(S.CARTS, r.caller)
    IN  IF got.r.code = 401 THEN got
        ELSE Return([S EXCEPT !.CARTS = [C EXCEPT ![r.caller].items =
                        SelectSeq(@, LAMBDA it : it.product_id # r.product_id)]],
                    got.r, 200, "")

\* DELETE /api/cart/clear
main_clear_cart(S, r) ==
    LET got == main_get_current_user(S, r, "done")
    IN  IF got.r.code = 401 THEN got
        ELSE Return([S EXCEPT !.CARTS[r.caller] = [present |-> TRUE, items |-> <<>>]],
                    got.r, 200, "")

\* The dict place_order builds from the cart (lines 195-205)
main_order(r, cart) ==
    [order_id |-> r.new_id, user_id |-> r.caller, address |-> r.full_name,
     items |-> cart.items,
     total |-> SumSeq([k \in 1..Len(cart.items) |->
                         cart.items[k].price * cart.items[k].quantity]),
     status |-> "PLACED"]

\* Mutant: CARTS[user_id] is rebound before ORDERS.append.
place_order_rebinds_first(S, r) ==
    CASE r.pc = "auth" ->
            LET got == main_get_current_user(S, r, "rebind")
                cart == S.CARTS[r.caller]
            IN  IF got.r.code = 401 THEN got
                ELSE IF ~cart.present \/ cart.items = <<>>
                THEN Return(S, got.r, 400, "Cart is empty")
                ELSE [S |-> [S EXCEPT !.CARTS[r.caller] = [present |-> TRUE, items |-> <<>>]],
                      r |-> [got.r EXCEPT !.order = main_order(r, cart)]]
      [] r.pc = "rebind" ->
            Return([S EXCEPT !.ORDERS = Append(@, r.order)], r, 200, "")

\* POST /api/orders/place.  ORDERS.append (line 207) and the rebinding of
\* CARTS[user_id] (line 208) are two statements: another thread can run
\* between them.
place_order(S, r) ==
    CASE r.pc = "auth" ->
            LET got == main_get_current_user(S, r, "rebind")
                cart == S.CARTS[r.caller]
            IN  IF got.r.code = 401 THEN got
                ELSE IF ~cart.present \/ cart.items = <<>>
                THEN Return(S, got.r, 400, "Cart is empty")
                ELSE [S |-> [S EXCEPT !.ORDERS = Append(@, main_order(r, cart))],
                      r |-> [got.r EXCEPT !.order = main_order(r, cart)]]
      [] r.pc = "rebind" ->
            Return([S EXCEPT !.CARTS[r.caller] = [present |-> TRUE, items |-> <<>>]],
                   r, 200, "")

\* GET /api/cart
main_get_cart(S, r) ==
    LET got == main_get_current_user(S, r, "done")
        C == CARTS_setdefault(S.CARTS, r.caller)
        items == C[r.caller].items
    IN  IF got.r.code = 401 THEN got
        ELSE Return([S EXCEPT !.CARTS = C],
                    [got.r EXCEPT !.body =
                        [items |-> items,
                         total |-> SumSeq([k \in 1..Len(items) |->
                                              items[k].price * items[k].quantity]),
                         item_count |-> SumSeq([k \in 1..Len(items) |-> items[k].quantity]),
                         savings |-> 0]],
                    200, "")

\* GET /api/orders
main_get_orders(S, r) ==
    LET got == main_get_current_user(S, r, "done")
    IN  IF got.r.code = 401 THEN got
        ELSE Return(S, [body |-> SelectSeq(S.ORDERS, LAMBDA o : o.user_id = r.caller)] @@ got.r,
                    200, "")

\* GET /api/admin/orders: no dependency on get_current_user
admin_get_orders(S, r) == Return(S, [body |-> S.ORDERS] @@ r, 200, "")

\* PUT /api/admin/orders/{order_id}/status: no dependency on get_current_user
admin_update_order_status(S, r) ==
    LET i == FirstIndex({n \in 1..Len(S.ORDERS) : S.ORDERS[n].order_id = r.order_id})
    IN  IF i = 0 THEN Return(S, r, 404, "Order not found")
        ELSE Return([S EXCEPT !.ORDERS[i].status = r.status], r, 200, "")

-----------------------------------------------------------------------------
(* Requests: the handler's arguments and its local variables.              *)

req_cart(op, c, p, q) ==
    NewReq(op, c) @@ [product_id |-> p, quantity |-> q, idx |-> 0, loaded |-> 0]

req_create_order(c, a, pm, id, tick) ==
    NewReq("create_order", c) @@
    [address_id |-> a, payment_method |-> pm, new_id |-> id, tick |-> tick,
     cart_items |-> <<>>, address |-> NoAddress, order_items |-> <<>>, total |-> 0,
     idx |-> 0, order_doc |-> NoOrder]

req_status(op, c, id, st) == NewReq(op, c) @@ [order_id |-> id, status |-> st]

req_product(op, c, p, payload) == NewReq(op, c) @@ [product_id |-> p, payload |-> payload]

req_address(op, c, a, name, dflt) ==
    NewReq(op, c) @@
    [address_id |-> a, new_addr_id |-> a, full_name |-> name, is_default |-> dflt,
     address |-> NoAddress]

req_get_cart(op, c) ==
    NewReq(op, c) @@ [cart_items |-> <<>>, idx |-> 0, items |-> <<>>, total |-> 0,
                      savings |-> 0,
                      body |-> [items |-> <<>>, total |-> 0, item_count |-> 0, savings |-> 0]]

req_list(op, c) == NewReq(op, c) @@ [body |-> <<>>]

req_register(c) == NewReq("register", c)

NoMainOrder ==
    [order_id |-> "", user_id |-> "", address |-> "", items |-> <<>>, total |-> 0, status |-> ""]

req_place_order(c, name, id) ==
    NewReq("place_order", c) @@ [full_name |-> name, new_id |-> id, order |-> NoMainOrder]

\* One step of the handler the request is in.
Step(S, r) ==
    CASE r.op = "add_to_cart" -> add_to_cart(S, r)
      [] r.op = "update_cart_item" -> update_cart_item(S, r)
      [] r.op = "remove_from_cart" -> remove_from_cart(S, r)
      [] r.op = "clear_cart" -> clear_cart(S, r)
      [] r.op = "create_order" -> create_order(S, r)
      [] r.op = "update_order_status" -> update_order_status(S, r)
      [] r.op = "get_all_orders" -> get_all_orders(S, r)
      [] r.op = "update_product" -> update_product(S, r)
      [] r.op = "delete_product" -> delete_product(S, r)
      [] r.op = "add_address" -> add_address(S, r)
      [] r.op = "delete_address" -> delete_address(S, r)
      [] r.op = "get_cart" -> get_cart(S, r)
      [] r.op = "get_orders" -> get_orders(S, r)
      [] r.op = "register" -> register(S, r)
      [] r.op = "get_order" -> get_order(S, r)
      [] r.op = "get_products" -> get_products(S, r)
      [] r.op = "get_product" -> get_product(S, r)
      [] r.op = "create_product" -> create_product(S, r)
      [] r.op = "main_get_cart" -> main_get_cart(S, r)
      [] r.op = "main_get_orders" -> main_get_orders(S, r)
      [] r.op = "main_add_to_cart" -> main_add_to_cart(S, r)
      [] r.op = "main_update_cart" -> main_update_cart(S, r)
      [] r.op = "main_remove_cart_item" -> main_remove_cart_item(S, r)
      [] r.op = "main_clear_cart" -> main_clear_cart(S, r)
      [] r.op = "place_order" -> place_order(S, r)
      [] r.op = "admin_get_orders" -> admin_get_orders(S, r)
      [] r.op = "admin_update_order_status" -> admin_update_order_status(S, r)

\* The whole handler: its steps with no other request in between.
RECURSIVE Run(_, _)
Run(S, r) ==
    IF r.pc = "done" THEN [S |-> S, r |-> r]
    ELSE LET o == Step(S, r) IN Run(o.S, o.r)

\* What the caller sees of a request that returned.
Response(r) == [op |-> r.op, caller |-> r.caller, code |-> r.code, detail |-> r.detail]

NoResponse == [op |-> "", caller |-> "", code |-> 0, detail |-> ""]

\* History: the orders created for the caller since the caller's last successful add.
SinceAdd(S, T, r) ==
    IF r.op \in {"add_to_cart", "main_add_to_cart"} /\ r.pc = "done" /\ r.code = 200
    THEN [sinceAdd EXCEPT ![r.caller] = 0]
    ELSE IF Len(T.orders) > Len(S.orders) \/ Len(T.ORDERS) > Len(S.ORDERS)
    THEN [sinceAdd EXCEPT ![r.caller] = @ + 1]
    ELSE sinceAdd

\* The store after a step or a run.
Commit(T) ==
    /\ dbUsers' = T.users
    /\ dbCarts' = T.carts
    /\ dbOrders' = T.orders
    /\ dbProducts' = T.products
    /\ clock' = T.clock
    /\ CARTS' = T.CARTS
    /\ ORDERS' = T.ORDERS

\* A request served with no other request in flight.
Call(r) ==
    /\ nreq < MaxReqs
    /\ LET out == Run(Store, r)
       IN  /\ Commit(out.S)
           /\ last' = Response(out.r)
           /\ sinceAdd' = SinceAdd(Store, out.S, out.r)
    /\ nreq' = nreq + 1
    /\ UNCHANGED <<prog, reqs, added>>

-----------------------------------------------------------------------------
(* The sequential specification: requests are served one after the other.  *)

StatusInputs == valid_statuses \cup {"BOGUS"}
MainStatusInputs == {"PREPARING", "DELIVERED", "BOGUS"}

NoReq == [op |-> "", caller |-> "", pc |-> "idle", code |-> 0, detail |-> "", user |-> NoUser]

\* The quantity of product p in the cart find_one returns for u.
CartQty(carts, u, p) ==
    LET i == carts_find_one(carts, u)
    IN  IF i = 0 THEN 0
        ELSE SumSeq([k \in 1..Len(carts[i].items) |->
                        IF carts[i].items[k].product_id = p
                        THEN carts[i].items[k].quantity ELSE 0])

MainCartQty(C, u, p) ==
    SumSeq([k \in 1..Len(C[u].items) |->
               IF C[u].items[k].product_id = p THEN C[u].items[k].quantity ELSE 0])

\* A uuid4() for a new address: a value no stored address has.
FreshAddrIds ==
    LET free == AddrIds \ {dbUsers[u].addresses[k].id :
                              <<u, k>> \in {<<v, j>> \in UserIds \X (1..MaxAddr) :
                                               j <= Len(dbUsers[v].addresses)}}
    IN  IF free = {} THEN {} ELSE {CHOOSE a \in free : \A b \in free : a <= b}

Init ==
    /\ prog \in {"server", "main"}
    /\ dbUsers = [u \in UserIds |->
                    [present |-> (u # NewUser), is_admin |-> (u = "adm"),
                     addresses |-> IF u = "u1" THEN <<[id |-> 1, full_name |-> "home", is_default |-> TRUE]>>
                                   ELSE IF u = "u2" THEN <<[id |-> 2, full_name |-> "work", is_default |-> TRUE]>>
                                   ELSE <<>>]]
    /\ dbCarts = <<[user_id |-> "adm", items |-> <<>>], [user_id |-> "u1", items |-> <<>>],
                   [user_id |-> "u2", items |-> <<>>]>>
    /\ dbOrders = <<>>
    /\ dbProducts = [p \in CatalogIds |->
                       IF p = "p1"
                       THEN [present |-> TRUE, name |-> "n1", price |-> 2, mrp |-> 3,
                             is_available |-> TRUE]
                       ELSE IF p = "p2"
                       THEN [present |-> TRUE, name |-> "n2", price |-> 3, mrp |-> 4,
                             is_available |-> TRUE]
                       ELSE [present |-> FALSE, name |-> "", price |-> 0, mrp |-> 0,
                             is_available |-> FALSE]]
    /\ clock = 0
    /\ CARTS = [u \in Shoppers |-> [present |-> FALSE, items |-> <<>>]]
    /\ ORDERS = <<>>
    /\ reqs = [s \in Slots |-> NoReq]
    /\ last = NoResponse
    /\ sinceAdd = [u \in UserIds |-> 0]
    /\ added = 0
    /\ nreq = 0

AddToCart ==
    /\ prog = "server"
    /\ \E c \in Shoppers, p \in ProductIds, q \in 1..MaxQty :
          /\ CartQty(dbCarts, c, p) + q <= MaxQty
          /\ Call(req_cart("add_to_cart", c, p, q))

UpdateCartItem ==
    /\ prog = "server"
    /\ \E c \in Shoppers, p \in ProductIds, q \in 0..MaxQty :
          Call(req_cart("update_cart_item", c, p, q))

RemoveFromCart ==
    /\ prog = "server"
    /\ \E c \in Shoppers, p \in ProductIds : Call(req_cart("remove_from_cart", c, p, 0))

ClearCart ==
    /\ prog = "server"
    /\ \E c \in Shoppers : Call(req_cart("clear_cart", c, "p1", 0))

CreateOrder ==
    /\ prog = "server"
    /\ Len(dbOrders) < MaxOrders
    /\ \E c \in Shoppers, a \in AddrIds, pm \in PaymentMethods, id \in OrderIds, tick \in Ticks :
          Call(req_create_order(c, a, pm, id, tick))

UpdateOrderStatus ==
    /\ prog = "server"
    /\ \E c \in AdminCallers, id \in OrderIds, st \in StatusInputs :
          Call(req_status("update_order_status", c, id, st))

GetAllOrders ==
    /\ prog = "server"
    /\ \E c \in AdminCallers : Call(req_status("get_all_orders", c, "", ""))

UpdateProduct ==
    /\ prog = "server"
    /\ \E c \in AdminCallers, p \in ProductIds, payload \in ProductPayloads :
          Call(req_product("update_product", c, p, payload))

DeleteProduct ==
    /\ prog = "server"
    /\ \E c \in AdminCallers, p \in ProductIds :
          Call(req_product("delete_product", c, p, [name |-> "", price |-> 0]))

AddAddress ==
    /\ prog = "server"
    /\ \E c \in Shoppers, a \in FreshAddrIds, name \in AddrNames, dflt \in BOOLEAN :
          /\ Len(dbUsers[c].addresses) < MaxAddr
          /\ Call(req_address("add_address", c, a, name, dflt))

DeleteAddress ==
    /\ prog = "server"
    /\ \E c \in Shoppers, a \in AddrIds : Call(req_address("delete_address", c, a, "", FALSE))

MainAddToCart ==
    /\ prog = "main"
    /\ \E c \in Shoppers, p \in MainProductIds, q \in 1..MaxQty :
          /\ MainCartQty(CARTS, c, p) + q <= MaxQty
          /\ Call(req_cart("main_add_to_cart", c, p, q))

MainUpdateCart ==
    /\ prog = "main"
    /\ \E c \in Shoppers, p \in MainProductIds, q \in 0..MaxQty :
          Call(req_cart("main_update_cart", c, p, q))

MainRemoveCartItem ==
    /\ prog = "main"
    /\ \E c \in Shoppers, p \in MainProductIds : Call(req_cart("main_remove_cart_item", c, p, 0))

MainClearCart ==
    /\ prog = "main"
    /\ \E c \in Shoppers : Call(req_cart("main_clear_cart", c, 1, 0))

PlaceOrder ==
    /\ prog = "main"
    /\ Len(ORDERS) < MaxOrders
    /\ \E c \in Shoppers, name \in AddrNames, id \in OrderIds :
          Call(req_place_order(c, name, id))

AdminGetOrders ==
    /\ prog = "main"
    /\ \E c \in AdminCallers : Call(req_status("admin_get_orders", c, "", ""))

AdminUpdateOrderStatus ==
    /\ prog = "main"
    /\ \E c \in AdminCallers, id \in OrderIds, st \in MainStatusInputs :
          Call(req_status("admin_update_order_status", c, id, st))

Next ==
    \/ AddToCart \/ UpdateCartItem \/ RemoveFromCart \/ ClearCart
    \/ CreateOrder \/ UpdateOrderStatus \/ GetAllOrders
    \/ UpdateProduct \/ DeleteProduct \/ AddAddress \/ DeleteAddress
    \/ MainAddToCart \/ MainUpdateCart \/ MainRemoveCartItem \/ MainClearCart
    \/ PlaceOrder \/ AdminGetOrders \/ AdminUpdateOrderStatus

Spec == Init /\ [][Next]_vars

-----------------------------------------------------------------------------
(* The concurrent specifications: the requests in flight take their steps  *)
(* in any order.  server.py: every await of a handler ends a step.         *)
(* main.py: the worker threads of add_to_cart.                             *)

InFlight(s) == reqs[s].pc # "idle"

AllIdle == \A s \in Slots : ~InFlight(s)

\* The request enters the first free slot.
Start(r) ==
    /\ nreq < MaxReqs
    /\ \E s \in Slots :
          /\ ~InFlight(s)
          /\ \A t \in Slots : t < s => InFlight(t)
          /\ reqs' = [reqs EXCEPT ![s] = r]
    /\ nreq' = nreq + 1
    /\ UNCHANGED <<prog, dbUsers, dbCarts, dbOrders, dbProducts, clock, CARTS, ORDERS,
                   last, sinceAdd, added>>

\* The request in slot s runs up to its next await; when the handler returns,
\* the response goes to the caller and the slot is free.
StepReq(s) ==
    /\ InFlight(s)
    /\ LET out == Step(Store, reqs[s])
       IN  /\ Commit(out.S)
           /\ sinceAdd' = SinceAdd(Store, out.S, out.r)
           /\ IF out.r.pc = "done"
              THEN /\ reqs' = [reqs EXCEPT ![s] = NoReq]
                   /\ last' = Response(out.r)
                   /\ added' = IF out.r.op \in {"add_to_cart", "main_add_to_cart"}
                                  /\ out.r.code = 200
                               THEN added + out.r.quantity ELSE added
              ELSE /\ reqs' = [reqs EXCEPT ![s] = out.r]
                   /\ UNCHANGED <<last, added>>
    /\ UNCHANGED <<prog, nreq>>

\* The process dies, or the connection to the database is lost, while the
\* request in slot s waits: the handler never resumes and the caller gets a 500.
Crash(s) ==
    /\ InFlight(s)
    /\ reqs[s].pc # "auth"
    /\ reqs' = [reqs EXCEPT ![s] = NoReq]
    /\ last' = [op |-> reqs[s].op, caller |-> reqs[s].caller, code |-> 500, detail |-> "crash"]
    /\ UNCHANGED <<prog, dbUsers, dbCarts, dbOrders, dbProducts, clock, CARTS, ORDERS,
                   sinceAdd, added, nreq>>

Racer == "u1"     \* the user whose requests race

StartAddToCart ==
    /\ prog = "server"
    /\ \E p \in ProductIds, q \in 1..MaxQty : Start(req_cart("add_to_cart", Racer, p, q))

StartCreateOrder ==
    /\ prog = "server"
    /\ Len(dbOrders) < MaxOrders
    /\ \E a \in AddrIds, pm \in PaymentMethods, id \in OrderIds, tick \in Ticks :
          Start(req_create_order(Racer, a, pm, id, tick))

StartMainAddToCart ==
    /\ prog = "main"
    /\ \E p \in MainProductIds, q \in 1..MaxQty : Start(req_cart("main_add_to_cart", Racer, p, q))

StepAny == \E s \in Slots : StepReq(s)

NextConc == StartAddToCart \/ StartCreateOrder \/ StartMainAddToCart \/ StepAny

SpecConc == Init /\ [][NextConc]_vars

\* Requests one after the other, each of which may die between two of its steps.
CrashAny == \E s \in Slots : Crash(s)

NextCrash ==
    \/ (AllIdle /\ StartAddToCart)
    \/ (AllIdle /\ StartCreateOrder)
    \/ StepAny
    \/ CrashAny

SpecCrash == Init /\ [][NextCrash]_vars

-----------------------------------------------------------------------------
(* The cart specification: the cart routes and the order placement of two  *)
(* users and of a caller without a credential, served one after the other, *)
(* with any integer quantity the handlers accept.                          *)

QtyInputs == (-1)..MaxQty
CartCallers == Shoppers \cup {Anon}

CartAdd ==
    /\ prog = "server"
    /\ \E c \in CartCallers, p \in ProductIds, q \in QtyInputs :
          Call(req_cart("add_to_cart", c, p, q))

CartUpdate ==
    /\ prog = "server"
    /\ \E c \in CartCallers, p \in ProductIds, q \in QtyInputs :
          Call(req_cart("update_cart_item", c, p, q))

CartRemove ==
    /\ prog = "server"
    /\ \E c \in CartCallers, p \in ProductIds : Call(req_cart("remove_from_cart", c, p, 0))

CartClear ==
    /\ prog = "server"
    /\ \E c \in CartCallers : Call(req_cart("clear_cart", c, "p1", 0))

CartGet ==
    /\ prog = "server"
    /\ \E c \in CartCallers : Call(req_get_cart("get_cart", c))

CartOrder ==
    /\ prog = "server"
    /\ Len(dbOrders) < MaxOrders
    /\ \E c \in CartCallers, a \in AddrIds, pm \in PaymentMethods, tick \in Ticks :
          Call(req_create_order(c, a, pm, "0A", tick))

MainCartAdd ==
    /\ prog = "main"
    /\ \E c \in CartCallers, p \in MainProductIds, q \in QtyInputs :
          Call(req_cart("main_add_to_cart", c, p, q))

MainCartUpdate ==
    /\ prog = "main"
    /\ \E c \in CartCallers, p \in MainProductIds, q \in QtyInputs :
          Call(req_cart("main_update_cart", c, p, q))

MainCartRemove ==
    /\ prog = "main"
    /\ \E c \in CartCallers, p \in MainProductIds :
          Call(req_cart("main_remove_cart_item", c, p, 0))

MainCartClear ==
    /\ prog = "main"
    /\ \E c \in CartCallers : Call(req_cart("main_clear_cart", c, 1, 0))

MainCartGet ==
    /\ prog = "main"
    /\ \E c \in CartCallers : Call(req_get_cart("main_get_cart", c))

MainCartOrder ==
    /\ prog = "main"
    /\ Len(ORDERS) < MaxOrders
    /\ \E c \in CartCallers, name \in AddrNames : Call(req_place_order(c, name, "0A"))

NextCart ==
    \/ CartAdd \/ CartUpdate \/ CartRemove \/ CartClear \/ CartGet \/ CartOrder
    \/ MainCartAdd \/ MainCartUpdate \/ MainCartRemove \/ MainCartClear
    \/ MainCartGet \/ MainCartOrder

SpecCart == Init /\ [][NextCart]_vars

-----------------------------------------------------------------------------
(* The listing specification: server.py starts with the orders that u1    *)
(* (the first 101) and then u2 have placed in SeededOrders earlier rounds *)
(* of add_to_cart and create_order (one line of p1 each, one tick of the  *)
(* clock apart); then carts are filled, orders placed and the listings    *)
(* read.                                                                   *)

seeded_order(i) ==
    [id |-> ToString(i), user_id |-> IF i <= get_orders_limit + 1 THEN "u1" ELSE "u2",
     items |-> <<[product_id |-> "p1", name |-> "n1", price |-> 2, quantity |-> 1,
                  subtotal |-> 2]>>,
     address |-> [full_name |-> "home"], total |-> 2, status |-> "confirmed",
     payment_method |-> "COD", created_at |-> i - SeededOrders]

InitOrders ==
    /\ prog \in {"server", "main"}
    /\ dbUsers = [u \in UserIds |->
                    [present |-> (u # NewUser), is_admin |-> (u = "adm"),
                     addresses |-> IF u = "u1" THEN <<[id |-> 1, full_name |-> "home", is_default |-> TRUE]>>
                                   ELSE IF u = "u2" THEN <<[id |-> 2, full_name |-> "work", is_default |-> TRUE]>>
                                   ELSE <<>>]]
    /\ dbCarts = <<[user_id |-> "adm", items |-> <<>>], [user_id |-> "u1", items |-> <<>>],
                   [user_id |-> "u2", items |-> <<>>]>>
    /\ dbOrders = IF prog = "server" THEN [i \in 1..SeededOrders |-> seeded_order(i)] ELSE <<>>
    /\ dbProducts = [p \in CatalogIds |->
                       IF p = "p1"
                       THEN [present |-> TRUE, name |-> "n1", price |-> 2, mrp |-> 3,
                             is_available |-> TRUE]
                       ELSE IF p = "p2"
                       THEN [present |-> TRUE, name |-> "n2", price |-> 3, mrp |-> 4,
                             is_available |-> TRUE]
                       ELSE [present |-> FALSE, name |-> "", price |-> 0, mrp |-> 0,
                             is_available |-> FALSE]]
    /\ clock = 0
    /\ CARTS = [u \in Shoppers |-> [present |-> FALSE, items |-> <<>>]]
    /\ ORDERS = <<>>
    /\ reqs = [s \in Slots |-> NoReq]
    /\ last = NoResponse
    /\ sinceAdd = [u \in UserIds |-> 0]
    /\ added = 0
    /\ nreq = 0

ListCallers == Shoppers \cup {"adm", Anon}

CreateOrderMore ==
    /\ prog = "server"
    /\ Len(dbOrders) < SeededOrders + MaxOrders
    /\ \E c \in Shoppers, a \in AddrIds, pm \in PaymentMethods, tick \in Ticks :
          Call(req_create_order(c, a, pm, "0A", tick))

GetOrders ==
    /\ prog = "server"
    /\ \E c \in ListCallers : Call(req_list("get_orders", c))

MainGetOrders ==
    /\ prog = "main"
    /\ \E c \in ListCallers : Call(req_list("main_get_orders", c))

AddOne ==
    /\ prog = "server"
    /\ \E c \in Shoppers : Call(req_cart("add_to_cart", c, "p1", 1))

MainAddOne ==
    /\ prog = "main"
    /\ \E c \in Shoppers : Call(req_cart("main_add_to_cart", c, 1, 1))

NextOrders ==
    \/ AddOne \/ CreateOrderMore \/ GetOrders \/ GetAllOrders
    \/ MainAddOne \/ PlaceOrder \/ MainGetOrders \/ AdminGetOrders

SpecOrders == InitOrders /\ [][NextOrders]_vars

-----------------------------------------------------------------------------
(* Claims.                                                                 *)

\* The fields of an order that the claims call immutable.
FrozenOrder(o) ==
    [id |-> o.id, user_id |-> o.user_id, items |-> o.items, address |-> o.address,
     total |-> o.total, created_at |-> o.created_at]

FrozenMainOrder(o) ==
    [order_id |-> o.order_id, user_id |-> o.user_id, items |-> o.items,
     address |-> o.address, total |-> o.total]

\* The lines of the cart find_one returns for u.
CartItems(carts, u) ==
    LET i == carts_find_one(carts, u) IN IF i = 0 THEN <<>> ELSE carts[i].items

\* C1: once an order is stored, no later request of any user (cart calls, further
\* orders, price changes and deletions in the catalog, address calls, status
\* changes) removes it or changes its id, owner, items, address, total or
\* created_at; only its status may change.
C1_OrderImmutable ==
    [][/\ Len(dbOrders') >= Len(dbOrders)
       /\ \A i \in 1..Len(dbOrders) : FrozenOrder(dbOrders'[i]) = FrozenOrder(dbOrders[i])
       /\ Len(ORDERS') >= Len(ORDERS)
       /\ \A i \in 1..Len(ORDERS) : FrozenMainOrder(ORDERS'[i]) = FrozenMainOrder(ORDERS[i])
      ]_vars

\* An order whose product has since got another price and whose status has moved on.
C1_Witness ==
    \E i \in 1..Len(dbOrders) : \E k \in 1..Len(dbOrders[i].items) :
        LET it == dbOrders[i].items[k]
        IN  /\ dbProducts[it.product_id].present
            /\ dbProducts[it.product_id].price # it.price
            /\ dbOrders[i].status # "confirmed"

\* C2: an order request on a cart with no lines (or on no cart) gets "Cart is
\* empty" and stores no order; so does every order request of a user who has
\* placed an order and has not added since.
C2_EmptyCartRejected ==
    [][\A u \in Shoppers :
         (last'.op \in {"create_order", "place_order"} /\ last'.caller = u) =>
            LET empty == IF prog = "server" THEN CartItems(dbCarts, u) = <<>>
                         ELSE ~CARTS[u].present \/ CARTS[u].items = <<>>
            IN  (empty \/ sinceAdd[u] >= 1) =>
                    /\ last'.code = 400
                    /\ last'.detail = "Cart is empty"
                    /\ dbOrders' = dbOrders
                    /\ ORDERS' = ORDERS
      ]_vars

\* The second order request of a user with no add in between has been refused.
C2_Witness ==
    /\ last.op \in {"create_order", "place_order"}
    /\ last.code = 400
    /\ last.detail = "Cart is empty"
    /\ sinceAdd[last.caller] = 1

\* Whether address id a is among the saved addresses of user u.
HasAddress(u, a) == \E k \in 1..Len(dbUsers[u].addresses) : dbUsers[u].addresses[k].id = a

\* C3: create_order on an empty cart, or with an address_id that is not among
\* the caller's saved addresses, fails with 400 and leaves the orders and every
\* cart as they were; and no failed create_order changes them.
C3_AllOrNothing ==
    [][/\ \A c \in Shoppers, a \in AddrIds, pm \in PaymentMethods, id \in OrderIds, tick \in Ticks :
            (/\ Call(req_create_order(c, a, pm, id, tick))
             /\ (CartItems(dbCarts, c) = <<>> \/ ~HasAddress(c, a)))
            => /\ last'.code = 400
               /\ last'.detail = IF CartItems(dbCarts, c) = <<>>
                                 THEN "Cart is empty" ELSE "Address not found"
               /\ dbOrders' = dbOrders
               /\ dbCarts' = dbCarts
       /\ (last'.op = "create_order" /\ last'.code # 200)
            => (dbOrders' = dbOrders /\ dbCarts' = dbCarts)
      ]_vars

\* A create_order refused for its address while the caller's cart holds lines.
C3_Witness ==
    /\ last.op = "create_order"
    /\ last.detail = "Address not found"
    /\ CartItems(dbCarts, last.caller) # <<>>

\* C4: a successful create_order stores one more order, owned by the caller,
\* whose items are the cart's lines whose product the catalog holds, in the
\* cart's order, with the cart's quantity, the catalog's price and
\* subtotal = price * quantity, and whose total is the sum of the subtotals.
C4_OrderSnapshot ==
    [][\A u \in Shoppers :
         (last'.op = "create_order" /\ last'.caller = u /\ last'.code = 200) =>
            LET kept == SelectSeq(CartItems(dbCarts, u),
                                  LAMBDA it : dbProducts[it.product_id].present)
                o == dbOrders'[Len(dbOrders')]
            IN  /\ Len(dbOrders') = Len(dbOrders) + 1
                /\ o.user_id = u
                /\ Len(o.items) = Len(kept)
                /\ \A k \in 1..Len(kept) :
                      /\ o.items[k].product_id = kept[k].product_id
                      /\ o.items[k].quantity = kept[k].quantity
                      /\ o.items[k].price = dbProducts[kept[k].product_id].price
                      /\ o.items[k].subtotal = o.items[k].price * o.items[k].quantity
                /\ o.total = SumSeq([k \in 1..Len(o.items) |-> o.items[k].subtotal])
      ]_vars

\* An order of two lines, p2 before p1, taken after p1 got another price.
C4_Witness ==
    /\ last.op = "create_order"
    /\ last.code = 200
    /\ Len(dbOrders) >= 1
    /\ LET o == dbOrders[Len(dbOrders)]
       IN  /\ Len(o.items) = 2
           /\ o.items[1].product_id = "p2"
           /\ o.items[2].product_id = "p1"
           /\ o.items[2].price = 3

\* The quantity of all lines of a sequence of cart or order lines.
TotalQty(items) == SumSeq([k \in 1..Len(items) |-> items[k].quantity])

\* The quantity of all lines of all stored orders of server.py.
OrderedQty == SumSeq([i \in 1..Len(dbOrders) |-> TotalQty(dbOrders[i].items)])

\* C5: when create_order dies after the order is stored and before the cart is
\* emptied, and the caller asks again, the cart's contents are not ordered
\* twice: no user has two orders made since that user's last add.
C5_NoDoubleCharge == \A u \in UserIds : sinceAdd[u] <= 1

\* C6: when create_order and add_to_cart of one user interleave, no quantity of
\* an add that returned success is lost: once all requests have returned, what
\* was added is in the cart or in an order.
C6_AddNotDiscarded ==
    (prog = "server" /\ AllIdle) =>
        added <= TotalQty(CartItems(dbCarts, Racer)) + OrderedQty

\* C7: concurrent adds of one user are all reflected: once they have returned
\* (and no order has been taken), the cart holds the quantity that was added.
C7_BothAddsReflected ==
    (AllIdle /\ dbOrders = <<>>) =>
        /\ prog = "server" => TotalQty(CartItems(dbCarts, Racer)) = added
        /\ prog = "main" => TotalQty(CARTS[Racer].items) = added

\* C8: no two stored orders have the same order id.
C8_OrderIdsUnique ==
    /\ \A i, j \in 1..Len(dbOrders) : i # j => dbOrders[i].id # dbOrders[j].id
    /\ \A i, j \in 1..Len(ORDERS) : i # j => ORDERS[i].order_id # ORDERS[j].order_id

\* The statuses section 4.5 of the specification names, as main.py spells them.
MainStatuses == {"PLACED", "PREPARING", "OUT_FOR_DELIVERY", "DELIVERED", "CANCELLED"}

\* C9: the status of every stored order is a recognized status.
C9_StatusRecognized ==
    /\ \A i \in 1..Len(dbOrders) : dbOrders[i].status \in valid_statuses
    /\ \A i \in 1..Len(ORDERS) : ORDERS[i].status \in MainStatuses

\* The operations the specification reserves for an admin identity.
AdminOps == {"update_order_status", "get_all_orders", "admin_update_order_status", "admin_get_orders"}

\* Whether the caller's credential resolves to a user whose is_admin is true.
IsAdminCaller(c) == c \in UserIds /\ dbUsers[c].present /\ dbUsers[c].is_admin

\* C10: a status change or an all-orders listing asked by a caller who is not an
\* admin fails with 401 or 403, and every change of an order's status is made
\* by an admin caller.
C10_AdminOnly ==
    [][/\ (last'.op \in AdminOps /\ ~IsAdminCaller(last'.caller)) =>
            (last'.code \in {401, 403} /\ dbOrders' = dbOrders /\ ORDERS' = ORDERS)
       /\ (\/ \E i \in 1..Len(dbOrders) : dbOrders'[i].status # dbOrders[i].status
           \/ \E i \in 1..Len(ORDERS) : ORDERS'[i].status # ORDERS[i].status)
            => IsAdminCaller(last'.caller)
      ]_vars

-----------------------------------------------------------------------------
(* Order status.                                                           *)

\* The forward chain of section 4.5, as each snapshot spells it; a status
\* outside the chain and other than the cancelled one has no rank.
StatusChain ==
    IF prog = "server" THEN <<"confirmed", "preparing", "out_for_delivery", "delivered">>
    ELSE <<"PLACED", "PREPARING", "OUT_FOR_DELIVERY", "DELIVERED">>

Cancelled == IF prog = "server" THEN "cancelled" ELSE "CANCELLED"

Rank(st) == FirstIndex({k \in 1..Len(StatusChain) : StatusChain[k] = st})

\* A move the chain allows: forward along the chain (or staying), or to
\* cancelled from a status that is neither delivered nor cancelled.
ForwardMove(from, to) ==
    \/ from = to
    \/ Rank(from) # 0 /\ Rank(to) # 0 /\ Rank(from) <= Rank(to)
    \/ to = Cancelled /\ Rank(from) # 0 /\ Rank(from) < Len(StatusChain)

Recognized(st) == Rank(st) # 0 \/ st = Cancelled

\* The statuses of the stored orders of the snapshot that runs.
Statuses ==
    IF prog = "server" THEN [i \in 1..Len(dbOrders) |-> dbOrders[i].status]
    ELSE [i \in 1..Len(ORDERS) |-> ORDERS[i].status]

\* C11 as stated: the status of an order only moves forward along the chain,
\* or to cancelled from a status that is not terminal; judged on the moves
\* between two recognized statuses.
C11_StatusMonotonic ==
    [][\A i \in 1..Len(Statuses) :
          (Recognized(Statuses[i]) /\ Recognized(Statuses'[i]))
              => ForwardMove(Statuses[i], Statuses'[i])
      ]_vars

\* The store after an admin's set_status(id, st) in the current state, as
\* the handler of the running snapshot leaves it.
AfterSetStatus(id, st) ==
    IF prog = "server" THEN Run(Store, req_status("update_order_status", "adm", id, st))
    ELSE Run(Store, req_status("admin_update_order_status", "adm", id, st))

\* C11 amended: transitions are permissive.  A status changes only in a
\* set_status call that returns success, which changes one order only; and
\* in every state set_status(id, st) of an admin, for a stored id and a
\* status the handler accepts, succeeds and sets the first order of that id
\* to exactly st, whatever its status was, leaving all else as it is.
C11_StatusPermissive ==
    [][/\ \A i \in 1..Len(Statuses) :
             Statuses'[i] # Statuses[i] =>
                 /\ last'.op \in {"update_order_status", "admin_update_order_status"}
                 /\ last'.code = 200
                 /\ \A j \in 1..Len(Statuses) : j # i => Statuses'[j] = Statuses[j]
       /\ \A id \in OrderIds, st \in (IF prog = "server" THEN valid_statuses ELSE MainStatusInputs) :
             LET out == AfterSetStatus(id, st)
                 i == FirstIndex({n \in 1..Len(dbOrders) : dbOrders[n].id = id})
                 k == FirstIndex({n \in 1..Len(ORDERS) : ORDERS[n].order_id = id})
             IN  /\ (prog = "server" /\ i # 0) =>
                        /\ out.r.code = 200
                        /\ out.S = [Store EXCEPT !.orders[i].status = st]
                 /\ (prog = "main" /\ k # 0) =>
                        /\ out.r.code = 200
                        /\ out.S = [Store EXCEPT !.ORDERS[k].status = st]
      ]_vars

\* An order that an admin has moved back from delivered to the initial status
\* is not told apart from a new one by its fields; the state shown is a
\* stored order of server.py that a successful set_status left in preparing.
C11_Witness ==
    /\ prog = "server"
    /\ last.op = "update_order_status" /\ last.code = 200
    /\ \E i \in 1..Len(dbOrders) : dbOrders[i].status = "preparing"

-----------------------------------------------------------------------------
(* Carts.                                                                  *)

\* The cart documents db.carts holds for u.
CartDocs(carts, u) == SelectSeq(carts, LAMBDA d : d.user_id = u)

\* C12: a cart route or an order placement served for one caller, whether it
\* succeeds or fails, leaves the cart of every other user as it was.
C12_CartIsolation ==
    [][\A u \in UserIds :
          u # last'.caller =>
              /\ CartDocs(dbCarts', u) = CartDocs(dbCarts, u)
              /\ u \in Shoppers => CARTS'[u] = CARTS[u]
      ]_vars

\* u1 has emptied their own cart, or ordered it, while u2's cart holds a line.
C12_Witness ==
    /\ last.caller = "u1" /\ last.code = 200
    /\ last.op \in {"clear_cart", "create_order", "main_clear_cart", "place_order"}
    /\ \/ CartItems(dbCarts, "u2") # <<>>
       \/ CARTS["u2"].items # <<>>

-----------------------------------------------------------------------------
(* Listings.                                                               *)

\* The elements of a sequence.
Range(s) == {s[k] : k \in 1..Len(s)}

\* What get_orders answers to c, and get_all_orders to the admin, in this state.
ListedTo(c) == Run(Store, req_list("get_orders", c)).r
ListedToAdmin == Run(Store, req_list("get_all_orders", "adm")).r
MainListedTo(c) == Run(Store, req_list("main_get_orders", c)).r
MainListedToAdmin == Run(Store, req_list("admin_get_orders", "adm")).r

\* A listing of the documents docs cut to limit: every document listed is
\* one of docs, none is listed twice, all are listed when there are at most
\* limit of them, and a document left out is no newer than any listed one.
CutListing(body, docs, limit) ==
    /\ Range(body) \subseteq Range(docs)
    /\ Len(body) = Cardinality(Range(body))
    /\ Len(body) = IF Len(docs) <= limit THEN Len(docs) ELSE limit
    /\ \A d \in Range(docs) \ Range(body) :
          \A k \in 1..Len(body) : body[k].created_at >= d.created_at

OrdersOf(c) == SelectSeq(dbOrders, LAMBDA o : o.user_id = c)
MainOrdersOf(c) == SelectSeq(ORDERS, LAMBDA o : o.user_id = c)

\* C13 as stated: get_orders answers a user with all of that user's orders
\* and no other, get_all_orders answers an admin with every stored order.
C13_AllOrdersListed ==
    /\ \A c \in Shoppers :
          /\ Range(ListedTo(c).body) = Range(OrdersOf(c))
          /\ Range(MainListedTo(c).body) = Range(MainOrdersOf(c))
    /\ Range(ListedToAdmin.body) = Range(dbOrders)
    /\ Range(MainListedToAdmin.body) = Range(ORDERS)

\* C13 amended: get_orders succeeds for a user and lists only that user's
\* orders: in server.py the 100 most recent of them (all of them when there
\* are at most 100), in main.py all of them; get_all_orders lists for an
\* admin the 500 most recent stored orders of server.py (all of them when
\* there are at most 500), and all stored orders of main.py.
C13_OrderVisibility ==
    /\ \A c \in Shoppers :
          /\ ListedTo(c).code = 200
          /\ CutListing(ListedTo(c).body, OrdersOf(c), get_orders_limit)
          /\ MainListedTo(c).code = 200
          /\ MainListedTo(c).body = MainOrdersOf(c)
    /\ ListedToAdmin.code = 200
    /\ CutListing(ListedToAdmin.body, dbOrders, get_all_orders_limit)
    /\ MainListedToAdmin.code = 200
    /\ MainListedToAdmin.body = ORDERS

\* u1 has placed one more order and read their listing, with more than 100
\* orders of their own and more than 500 orders in all (server.py); or u2
\* has read theirs while u1 has an order too (main.py).
C13_Witness ==
    /\ last.code = 200
    /\ \/ /\ last.op = "get_orders" /\ last.caller = "u1"
          /\ Len(OrdersOf("u1")) > get_orders_limit + 1
          /\ Len(dbOrders) > get_all_orders_limit
       \/ /\ last.op = "main_get_orders" /\ last.caller = "u2"
          /\ Len(MainOrdersOf("u2")) >= 1
          /\ Len(MainOrdersOf("u1")) >= 1

\* The lines of product p among items, and the other lines.
LinesOf(items, p) == SelectSeq(items, LAMBDA it : it.product_id = p)
LinesBut(items, p) == SelectSeq(items, LAMBDA it : it.product_id # p)

\* The cart of u in a store, as each snapshot keeps it.
ServerCart(S, u) == CartItems(S.carts, u)
MainCart(S, u) == S.CARTS[u].items

\* C14: in every state, for a user whose cart has no line of an existing
\* product p, add(p, q1) and then add(p, q2) with positive quantities both
\* succeed and leave one line of p, of quantity q1 + q2, and every other
\* line of the cart as it was.
C14_AddAccumulates ==
    \A c \in Shoppers, q1 \in 1..MaxQty, q2 \in 1..MaxQty :
        /\ prog = "server" =>
              \A p \in ProductIds :
                  (dbProducts[p].present /\ LinesOf(ServerCart(Store, c), p) = <<>>) =>
                      LET a == Run(Store, req_cart("add_to_cart", c, p, q1))
                          b == Run(a.S, req_cart("add_to_cart", c, p, q2))
                          after == ServerCart(b.S, c)
                      IN  /\ a.r.code = 200 /\ b.r.code = 200
                          /\ Len(LinesOf(after, p)) = 1
                          /\ LinesOf(after, p)[1].quantity = q1 + q2
                          /\ LinesBut(after, p) = ServerCart(Store, c)
        /\ prog = "main" =>
              \A p \in MainProductIds :
                  LinesOf(MainCart(Store, c), p) = <<>> =>
                      LET a == Run(Store, req_cart("main_add_to_cart", c, p, q1))
                          b == Run(a.S, req_cart("main_add_to_cart", c, p, q2))
                          after == MainCart(b.S, c)
                      IN  /\ a.r.code = 200 /\ b.r.code = 200
                          /\ Len(LinesOf(after, p)) = 1
                          /\ LinesOf(after, p)[1].quantity = q1 + q2
                          /\ LinesBut(after, p) = MainCart(Store, c)

\* u1 has added p1 twice, 1 and then 2 or 2 and then 1, to a cart that holds p2.
C14_Witness ==
    /\ last.op \in {"add_to_cart", "main_add_to_cart"} /\ last.caller = "u1" /\ last.code = 200
    /\ \/ /\ prog = "server"
          /\ LinesOf(ServerCart(Store, "u1"), "p2") # <<>>
          /\ Len(LinesOf(ServerCart(Store, "u1"), "p1")) = 1
          /\ LinesOf(ServerCart(Store, "u1"), "p1")[1].quantity = MaxQty + 1
       \/ /\ prog = "main"
          /\ LinesOf(MainCart(Store, "u1"), 2) # <<>>
          /\ Len(LinesOf(MainCart(Store, "u1"), 1)) = 1
          /\ LinesOf(MainCart(Store, "u1"), 1)[1].quantity = MaxQty + 1

\* items with the quantity of every line of p replaced by q.
WithQuantity(items, p, q) ==
    [k \in 1..Len(items) |->
        IF items[k].product_id = p THEN [items[k] EXCEPT !.quantity = q] ELSE items[k]]

\* C15: in every state, for a user whose cart has a line of p and every
\* q > 0, update(p, q) succeeds and leaves the cart as it was but for the
\* quantity of the line of p, which is q whatever it was before.
C15_UpdateReplaces ==
    \A c \in Shoppers, q \in 1..MaxQty :
        /\ prog = "server" =>
              \A p \in ProductIds :
                  LinesOf(ServerCart(Store, c), p) # <<>> =>
                      LET a == Run(Store, req_cart("update_cart_item", c, p, q))
                      IN  /\ a.r.code = 200
                          /\ ServerCart(a.S, c) = WithQuantity(ServerCart(Store, c), p, q)
                          /\ Len(LinesOf(ServerCart(a.S, c), p)) = 1
        /\ prog = "main" =>
              \A p \in MainProductIds :
                  LinesOf(MainCart(Store, c), p) # <<>> =>
                      LET a == Run(Store, req_cart("main_update_cart", c, p, q))
                      IN  /\ a.r.code = 200
                          /\ MainCart(a.S, c) = WithQuantity(MainCart(Store, c), p, q)
                          /\ Len(LinesOf(MainCart(a.S, c), p)) = 1

\* u1's update has returned; the cart holds a line of quantity 1 beside a
\* line whose quantity two adds have accumulated.
C15_Witness ==
    /\ last.op \in {"update_cart_item", "main_update_cart"} /\ last.caller = "u1" /\ last.code = 200
    /\ \/ /\ prog = "server"
          /\ Len(ServerCart(Store, "u1")) = 2
          /\ \E k \in 1..2 : ServerCart(Store, "u1")[k].quantity = 1
          /\ \E k \in 1..2 : ServerCart(Store, "u1")[k].quantity = MaxQty + 1
       \/ /\ prog = "main"
          /\ Len(MainCart(Store, "u1")) = 2
          /\ \E k \in 1..2 : MainCart(Store, "u1")[k].quantity = 1
          /\ \E k \in 1..2 : MainCart(Store, "u1")[k].quantity = MaxQty + 1

\* update(p, q) by c, as server.py answers it in this state: q <= 0 leaves
\* the cart without its line of p, and a p with no line leaves the cart as it is.
UpdateRemovesServer(c, p, q) ==
    LET before == ServerCart(Store, c)
        a == Run(Store, req_cart("update_cart_item", c, p, q))
    IN  /\ a.r.code = 200
        /\ q <= 0 => ServerCart(a.S, c) = LinesBut(before, p)
        /\ LinesOf(before, p) = <<>> => ServerCart(a.S, c) = before

\* The same of main.py.
UpdateRemovesMain(c, p, q) ==
    LET before == MainCart(Store, c)
        a == Run(Store, req_cart("main_update_cart", c, p, q))
    IN  /\ a.r.code = 200
        /\ q <= 0 => MainCart(a.S, c) = LinesBut(before, p)
        /\ LinesOf(before, p) = <<>> => MainCart(a.S, c) = before

\* C16: in every state and for both handlers, update(p, q) with q <= 0
\* succeeds and removes the line of p from the caller's cart, and update(p, q)
\* of a product with no line in the cart succeeds and leaves the cart unchanged.
C16_UpdateRemoves ==
    \A c \in Shoppers, q \in QtyInputs :
        /\ prog = "server" => \A p \in ProductIds : UpdateRemovesServer(c, p, q)
        /\ prog = "main" => \A p \in MainProductIds : UpdateRemovesMain(c, p, q)

\* The part of C16 that is about the database-backed handler.
C16_ServerOnly ==
    prog = "server" =>
        \A c \in Shoppers, q \in QtyInputs, p \in ProductIds : UpdateRemovesServer(c, p, q)

\* The no-op part of C16 for the in-memory handler.
C16_MainNoop ==
    prog = "main" =>
        \A c \in Shoppers, q \in QtyInputs, p \in MainProductIds :
            LinesOf(MainCart(Store, c), p) = <<>> =>
                LET a == Run(Store, req_cart("main_update_cart", c, p, q))
                IN  a.r.code = 200 /\ MainCart(a.S, c) = MainCart(Store, c)

\* Every line of items has a quantity of at least 1.
QuantitiesPositive(items) == \A k \in 1..Len(items) : items[k].quantity >= 1

\* C17: in every reachable state, every line of every stored cart has
\* quantity >= 1, whatever integers add and update were called with.
C17_QuantityPositive ==
    /\ \A i \in 1..Len(dbCarts) : QuantitiesPositive(dbCarts[i].items)
    /\ \A u \in DOMAIN CARTS : QuantitiesPositive(CARTS[u].items)

\* No two lines of items are of the same product.
ProductsUnique(items) ==
    \A j, k \in 1..Len(items) : items[j].product_id = items[k].product_id => j = k

\* C18: in every reachable state, the steps of concurrent adds interleaved
\* included, no cart holds two lines of the same product.
C18_ProductsUnique ==
    /\ \A i \in 1..Len(dbCarts) : ProductsUnique(dbCarts[i].items)
    /\ \A u \in DOMAIN CARTS : ProductsUnique(CARTS[u].items)

-----------------------------------------------------------------------------
(* The registration specification: a new user registers under server.py    *)
(* while requests that carry that user's token, which login issues as soon *)
(* as db.users holds the user, are in flight.  Two registrations of one    *)
(* email at once would draw two uuids and make two users; they are kept    *)
(* apart here, where the email and the uuid are one identity.              *)

Registering == \E s \in Slots : reqs[s].op = "register"

StartRegister ==
    /\ prog = "server"
    /\ ~Registering
    /\ Start(req_register(NewUser))

StartGetCart ==
    /\ prog = "server"
    /\ \E c \in {NewUser, Racer} : Start(req_get_cart("get_cart", c))

StartAddNew ==
    /\ prog = "server"
    /\ \E p \in ProductIds, q \in 1..MaxQty : Start(req_cart("add_to_cart", NewUser, p, q))

NextReg == StartRegister \/ StartGetCart \/ StartAddNew \/ StepAny

SpecReg == Init /\ [][NextReg]_vars

\* C19: in every reachable state no user has two cart documents, and the
\* user whose get_cart or add has just succeeded has exactly one; register,
\* get_cart and add of the same user may be in flight together.
C19_OneCartPerUser ==
    /\ \A u \in UserIds : Len(CartDocs(dbCarts, u)) <= 1
    /\ (last.op \in {"get_cart", "add_to_cart"} /\ last.code = 200) =>
           Len(CartDocs(dbCarts, last.caller)) = 1

\* C20: in every state, remove(p) succeeds and leaves the caller's cart
\* without its line of p and with every other line as it was, so unchanged
\* when it had no line of p; a second remove(p) succeeds and changes nothing.
C20_RemoveIdempotent ==
    \A c \in Shoppers :
        /\ prog = "server" =>
              \A p \in ProductIds :
                  LET before == ServerCart(Store, c)
                      a == Run(Store, req_cart("remove_from_cart", c, p, 0))
                      b == Run(a.S, req_cart("remove_from_cart", c, p, 0))
                  IN  /\ a.r.code = 200 /\ b.r.code = 200
                      /\ ServerCart(a.S, c) = LinesBut(before, p)
                      /\ LinesOf(before, p) = <<>> => ServerCart(a.S, c) = before
                      /\ b.S = a.S
        /\ prog = "main" =>
              \A p \in MainProductIds :
                  LET before == MainCart(Store, c)
                      a == Run(Store, req_cart("main_remove_cart_item", c, p, 0))
                      b == Run(a.S, req_cart("main_remove_cart_item", c, p, 0))
                  IN  /\ a.r.code = 200 /\ b.r.code = 200
                      /\ MainCart(a.S, c) = LinesBut(before, p)
                      /\ LinesOf(before, p) = <<>> => MainCart(a.S, c) = before
                      /\ b.S = a.S

\* u1's remove has returned and has left one line, of the second product, in
\* a cart that three requests have built.
C20_Witness ==
    /\ last.op \in {"remove_from_cart", "main_remove_cart_item"}
    /\ last.caller = "u1" /\ last.code = 200 /\ nreq >= 3
    /\ \/ /\ prog = "server"
          /\ Len(ServerCart(Store, "u1")) = 1
          /\ ServerCart(Store, "u1")[1].product_id = "p2"
       \/ /\ prog = "main"
          /\ Len(MainCart(Store, "u1")) = 1
          /\ MainCart(Store, "u1")[1].product_id = 2

-----------------------------------------------------------------------------
(* The catalog specification: the admin creates, updates and deletes       *)
(* products with any price and mrp ProductCreate accepts, while u1 adds to *)
(* the cart, reads it and orders; requests are served one after the other. *)

\* ProductCreate payloads: price and mrp are unconstrained floats.
CatalogPayloads ==
    {[name |-> "n3", price |-> 2, mrp |-> 3, is_available |-> TRUE],
     [name |-> "n3", price |-> 3, mrp |-> 2, is_available |-> TRUE],
     [name |-> "n3", price |-> -1, mrp |-> 0, is_available |-> TRUE],
     [name |-> "n3", price |-> -3, mrp |-> -2, is_available |-> TRUE],
     [name |-> "n3", price |-> 2, mrp |-> 3, is_available |-> FALSE]}

MainCatalogInputs == {1, 4, 9}    \* in stock, out of stock, not in PRODUCTS

OrderCallers == {"u1", "u2", "adm", Anon}

\* Some cart holds a line of product p.
InSomeCart(p) ==
    \E i \in 1..Len(dbCarts) : \E k \in 1..Len(dbCarts[i].items) :
        dbCarts[i].items[k].product_id = p

\* The identifier create_product draws is one no document refers to.
CatCreateProduct ==
    /\ prog = "server"
    /\ ~dbProducts[NewProduct].present /\ ~InSomeCart(NewProduct)
    /\ \E payload \in CatalogPayloads :
          Call(req_product("create_product", "adm", NewProduct, payload))

CatUpdateProduct ==
    /\ prog = "server"
    /\ \E p \in CatalogIds, payload \in CatalogPayloads :
          Call(req_product("update_product", "adm", p, payload))

CatDeleteProduct ==
    /\ prog = "server"
    /\ \E p \in CatalogIds :
          Call(req_product("delete_product", "adm", p, [name |-> "", price |-> 0]))

CatGetProduct ==
    /\ prog = "server"
    /\ \E p \in CatalogIds :
          Call(req_product("get_product", Anon, p, [name |-> "", price |-> 0]))

CatGetProducts ==
    /\ prog = "server"
    /\ Call(req_list("get_products", Anon))

CatAdd ==
    /\ prog = "server"
    /\ \E p \in CatalogIds, q \in 1..MaxQty : Call(req_cart("add_to_cart", Racer, p, q))

CatGetCart ==
    /\ prog = "server"
    /\ Call(req_get_cart("get_cart", Racer))

\* The order identifiers are drawn in turn: no two orders share one here.
CatCreateOrder ==
    /\ prog = "server"
    /\ Len(dbOrders) < MaxOrders
    /\ \E a \in AddrIds, pm \in PaymentMethods, tick \in Ticks :
          Call(req_create_order(Racer, a, pm, IF dbOrders = <<>> THEN "0A" ELSE "0B", tick))

CatGetOrder ==
    /\ prog = "server"
    /\ \E c \in OrderCallers, id \in OrderIds : Call(req_status("get_order", c, id, ""))

MainCatAdd ==
    /\ prog = "main"
    /\ \E p \in MainCatalogInputs, q \in 1..MaxQty :
          Call(req_cart("main_add_to_cart", Racer, p, q))

MainCatGetCart ==
    /\ prog = "main"
    /\ Call(req_get_cart("main_get_cart", Racer))

NextCatalog ==
    \/ CatCreateProduct \/ CatUpdateProduct \/ CatDeleteProduct
    \/ CatGetProduct \/ CatGetProducts
    \/ CatAdd \/ CatGetCart \/ CatCreateOrder \/ CatGetOrder
    \/ MainCatAdd \/ MainCatGetCart

SpecCatalog == Init /\ [][NextCatalog]_vars

-----------------------------------------------------------------------------
(* Catalog.                                                                *)

\* C21: in every state, add of a product the catalog does not hold fails
\* with "Product not found" and leaves the store as it is; add of a product
\* the catalog holds succeeds, available or not, and the caller's cart then
\* has a line of that product.
C21_AddNeedsProduct ==
    \A q \in 1..MaxQty :
        /\ prog = "server" =>
              \A p \in CatalogIds :
                  LET a == Run(Store, req_cart("add_to_cart", Racer, p, q))
                  IN  IF ~dbProducts[p].present
                      THEN a.r.code = 404 /\ a.r.detail = "Product not found" /\ a.S = Store
                      ELSE /\ a.r.code = 200
                           /\ LinesOf(ServerCart(a.S, Racer), p) # <<>>
                           /\ a.S.products[p].present
        /\ prog = "main" =>
              \A p \in MainCatalogInputs :
                  LET a == Run(Store, req_cart("main_add_to_cart", Racer, p, q))
                  IN  IF p \notin DOMAIN PRODUCTS
                      THEN a.r.code = 404 /\ a.r.detail = "Product not found" /\ a.S = Store
                      ELSE /\ a.r.code = 200
                           /\ LinesOf(MainCart(a.S, Racer), p) # <<>>

\* An add has just succeeded and the cart holds a line of a product that
\* the catalog holds and flags as unavailable.
C21_Witness ==
    /\ last.op \in {"add_to_cart", "main_add_to_cart"} /\ last.code = 200
    /\ \/ /\ prog = "server"
          /\ \E p \in CatalogIds :
                /\ dbProducts[p].present /\ ~dbProducts[p].is_available
                /\ LinesOf(ServerCart(Store, Racer), p) # <<>>
       \/ /\ prog = "main"
          /\ \E p \in DOMAIN PRODUCTS :
                ~PRODUCTS[p].in_stock /\ LinesOf(MainCart(Store, Racer), p) # <<>>

\* What get_cart answers to c in this state, under each snapshot.
CartAnswer(c) == Run(Store, req_get_cart("get_cart", c)).r
MainCartAnswer(c) == Run(Store, req_get_cart("main_get_cart", c)).r

\* C22: in every state, get_cart succeeds and its item_count is the number
\* of lines it returns, not the sum of their quantities.
C22_ItemCountIsLines ==
    \A c \in Shoppers :
        /\ prog = "server" =>
              /\ CartAnswer(c).code = 200
              /\ CartAnswer(c).body.item_count = Len(CartAnswer(c).body.items)
        /\ prog = "main" =>
              /\ MainCartAnswer(c).code = 200
              /\ MainCartAnswer(c).body.item_count = Len(MainCartAnswer(c).body.items)

\* The part of C22 that is about server.py.
C22_ServerOnly ==
    prog = "server" =>
        \A c \in Shoppers :
            /\ CartAnswer(c).code = 200
            /\ CartAnswer(c).body.item_count = Len(CartAnswer(c).body.items)

\* The lines of items whose product the catalog holds.
LiveLines(items) == SelectSeq(items, LAMBDA it : dbProducts[it.product_id].present)

\* Some line of items is of a product the catalog no longer holds.
HasDangling(items) == \E k \in 1..Len(items) : ~dbProducts[items[k].product_id].present

\* C23: in every state, get_cart of server.py succeeds, leaves the store as
\* it is, and answers the lines whose product the catalog holds, in the
\* cart's order, with total, savings and item_count taken over those lines
\* at the catalog's current price and mrp.
C23_DanglingExcluded ==
    prog = "server" =>
        \A c \in Shoppers :
            LET a == Run(Store, req_get_cart("get_cart", c))
                live == LiveLines(ServerCart(Store, c))
                price(k) == dbProducts[live[k].product_id].price
                mrp(k) == dbProducts[live[k].product_id].mrp
            IN  /\ a.r.code = 200
                /\ a.S = Store
                /\ a.r.body.items =
                       [k \in 1..Len(live) |->
                           cart_item_response(live[k], dbProducts[live[k].product_id])]
                /\ a.r.body.item_count = Len(live)
                /\ a.r.body.total = SumSeq([k \in 1..Len(live) |-> price(k) * live[k].quantity])
                /\ a.r.body.savings =
                       SumSeq([k \in 1..Len(live) |-> (mrp(k) - price(k)) * live[k].quantity])

\* u1's get_cart has returned while u1's cart holds a line of a deleted
\* product beside a line of a product the catalog holds.
C23_Witness ==
    /\ prog = "server"
    /\ last.op = "get_cart" /\ last.caller = Racer /\ last.code = 200
    /\ HasDangling(ServerCart(Store, Racer))
    /\ LiveLines(ServerCart(Store, Racer)) # <<>>

\* max(0, (mrp - price) * quantity) of a line whose product the catalog holds
ClampedSavings(line) ==
    LET product == dbProducts[line.product_id]
        d == (product.mrp - product.price) * line.quantity
    IN  IF d > 0 THEN d ELSE 0

\* C24: in every state, whatever price and mrp the products were created or
\* updated with, the savings get_cart of server.py answers are the sum over
\* the returned lines of max(0, (mrp - price) * quantity), hence >= 0.
C24_SavingsClamped ==
    prog = "server" =>
        \A c \in Shoppers :
            LET live == LiveLines(ServerCart(Store, c))
            IN  /\ CartAnswer(c).code = 200
                /\ CartAnswer(c).body.savings >= 0
                /\ CartAnswer(c).body.savings =
                       SumSeq([k \in 1..Len(live) |-> ClampedSavings(live[k])])

\* floor(a / b) for b # 0
FloorDiv(a, b) == IF b > 0 THEN a \div b ELSE (-a) \div (-b)

\* floor((mrp - price) * 100 / mrp) when mrp > price, and 0 otherwise
FlooredDiscount(price, mrp) ==
    IF mrp > price /\ mrp # 0 THEN FloorDiv((mrp - price) * 100, mrp) ELSE 0

\* The answer r carries the discount the specification gives for price and mrp.
DiscountAsSpecified(r, price, mrp) ==
    /\ r.code = 200
    /\ r.body.discount_percent = FlooredDiscount(price, mrp)
    /\ r.body.discount_percent >= 0

\* C25: in every state, get_product of every stored product, and
\* create_product with every payload ProductCreate accepts, answer without
\* an error a discount_percent that is floor((mrp - price) * 100 / mrp) when
\* mrp > price and 0 otherwise, and never negative.
C25_DiscountPercent ==
    prog = "server" =>
        /\ \A p \in CatalogIds :
              dbProducts[p].present =>
                  DiscountAsSpecified(
                      Run(Store, req_product("get_product", Anon, p, [name |-> ""])).r,
                      dbProducts[p].price, dbProducts[p].mrp)
        /\ \A payload \in CatalogPayloads :
              ~dbProducts[NewProduct].present =>
                  DiscountAsSpecified(
                      Run(Store, req_product("create_product", "adm", NewProduct, payload)).r,
                      payload.price, payload.mrp)

\* C25 for the products whose mrp is positive: the only ones for which
\* the expression of the code is the specified one.
C25_PositiveMrp ==
    prog = "server" =>
        \A p \in CatalogIds :
            (dbProducts[p].present /\ dbProducts[p].mrp > 0 /\ dbProducts[p].price >= 0) =>
                DiscountAsSpecified(
                    Run(Store, req_product("get_product", Anon, p, [name |-> ""])).r,
                    dbProducts[p].price, dbProducts[p].mrp)

\* C25 for the listing: the stored products never make get_products fail.
C25_ListingAnswers ==
    prog = "server" => Run(Store, req_list("get_products", Anon)).r.code = 200

-----------------------------------------------------------------------------
(* The address specification: add_address and delete_address requests of   *)
(* one user under server.py, in flight together.                           *)

\* str(uuid4()) for the address of the request that starts now
NextAddrId == Cardinality(AddrIds) + 1 + nreq

StartAddAddress ==
    /\ prog = "server"
    /\ \E name \in AddrNames, dflt \in BOOLEAN :
          Start(req_address("add_address", Racer, NextAddrId, name, dflt))

StartDeleteAddress ==
    /\ prog = "server"
    /\ \E a \in AddrIds : Start(req_address("delete_address", Racer, a, "", FALSE))

NextAddr == StartAddAddress \/ StartDeleteAddress \/ StepAny

SpecAddr == Init /\ [][NextAddr]_vars

\* The saved addresses of u that are flagged as the default.
Defaults(u) == {k \in 1..Len(dbUsers[u].addresses) : dbUsers[u].addresses[k].is_default}

\* C26: in every reachable state, add_address requests of one user
\* interleaved between their clear step and their push step included, at
\* most one saved address of each user has is_default = true.
C26_OneDefault == \A u \in UserIds : Cardinality(Defaults(u)) <= 1

-----------------------------------------------------------------------------
(* The order placement specification: adds and order placements of one     *)
(* user, one request at a time, observed after each of their steps.  Under *)
(* server.py the request may die between two steps; under main.py a step   *)
(* ends where another thread may run.                                      *)

StartPlaceOrder ==
    /\ prog = "main"
    /\ Len(ORDERS) < MaxOrders
    /\ \E name \in AddrNames, id \in OrderIds : Start(req_place_order(Racer, name, id))

ServerCrash == prog = "server" /\ CrashAny

NextPlace ==
    \/ (AllIdle /\ StartAddToCart)
    \/ (AllIdle /\ StartCreateOrder)
    \/ (AllIdle /\ StartMainAddToCart)
    \/ (AllIdle /\ StartPlaceOrder)
    \/ StepAny
    \/ ServerCrash

SpecPlace == Init /\ [][NextPlace]_vars

\* The request in slot s takes a step that leaves its caller's cart, which
\* had lines, without any.
EmptiesCart(s) ==
    /\ InFlight(s) /\ reqs'[s] # reqs[s]
    /\ \/ /\ reqs[s].op = "create_order"
          /\ CartItems(dbCarts, reqs[s].caller) # <<>>
          /\ CartItems(dbCarts', reqs[s].caller) = <<>>
       \/ /\ reqs[s].op = "place_order"
          /\ CARTS[reqs[s].caller].items # <<>>
          /\ CARTS'[reqs[s].caller].items = <<>>

\* The order the request in slot s has built is stored before the step.
OrderStored(s) ==
    \/ reqs[s].op = "create_order" /\ \E i \in 1..Len(dbOrders) : dbOrders[i] = reqs[s].order_doc
    \/ reqs[s].op = "place_order" /\ \E i \in 1..Len(ORDERS) : ORDERS[i] = reqs[s].order

\* The request in slot s returns success for an order placement in this step.
PlacementReturns(s) ==
    /\ InFlight(s) /\ reqs[s].op \in {"create_order", "place_order"}
    /\ ~InFlight(s)' /\ last'.code = 200

\* After the step the caller's cart exists and has no line.
CartLeftEmpty(s) ==
    \/ /\ reqs[s].op = "create_order"
       /\ Len(CartDocs(dbCarts', reqs[s].caller)) = 1
       /\ CartDocs(dbCarts', reqs[s].caller)[1].items = <<>>
    \/ /\ reqs[s].op = "place_order"
       /\ CARTS'[reqs[s].caller].present
       /\ CARTS'[reqs[s].caller].items = <<>>

\* C27: a step of an order placement that empties the caller's cart finds
\* the order already stored, and a placement that returns success leaves
\* the caller with a cart that exists and has zero lines.
C27_WriteBeforeClear ==
    [][\A s \in Slots :
          /\ EmptiesCart(s) => OrderStored(s)
          /\ PlacementReturns(s) => CartLeftEmpty(s)]_vars

\* An order placement is between its two writes: the order is stored and
\* the caller's cart still has its lines.
C27_Witness ==
    \E s \in Slots :
        \/ /\ reqs[s].op = "create_order" /\ reqs[s].pc = "clear"
           /\ \E i \in 1..Len(dbOrders) : dbOrders[i] = reqs[s].order_doc
           /\ CartItems(dbCarts, reqs[s].caller) # <<>>
        \/ /\ reqs[s].op = "place_order" /\ reqs[s].pc = "rebind"
           /\ \E i \in 1..Len(ORDERS) : ORDERS[i] = reqs[s].order
           /\ CARTS[reqs[s].caller].items # <<>>

-----------------------------------------------------------------------------
(* Orders looked up by identifier.                                         *)

\* No stored order of the snapshot that runs has identifier id.
NoSuchOrder(id) ==
    IF prog = "server" THEN \A i \in 1..Len(dbOrders) : dbOrders[i].id # id
    ELSE \A i \in 1..Len(ORDERS) : ORDERS[i].order_id # id

\* What the admin's set_status of order id to st gives in this state.
SetStatus(id, st) ==
    IF prog = "server" THEN Run(Store, req_status("update_order_status", "adm", id, st))
    ELSE Run(Store, req_status("admin_update_order_status", "adm", id, st))

\* The answer to a set_status with an identifier no order has: the store is
\* left as it is, and the error is the one of the status when the status is
\* not recognized, the one of the order otherwise.
UnknownOrderAnswer(id, st) ==
    /\ SetStatus(id, st).S = Store
    /\ IF Recognized(st)
       THEN SetStatus(id, st).r.code = 404 /\ SetStatus(id, st).r.detail = "Order not found"
       ELSE SetStatus(id, st).r.code = 400 /\ SetStatus(id, st).r.detail = "Invalid status"

\* C28: in every state, set_status with an identifier that no stored order
\* has fails with "Order not found" and changes nothing, and with "Invalid
\* status" when the status is not a recognized one either.
C28_UnknownOrder ==
    \A id \in OrderIds :
        NoSuchOrder(id) =>
            \A st \in (IF prog = "server" THEN StatusInputs ELSE MainStatusInputs) :
                UnknownOrderAnswer(id, st)

\* The part of C28 that is about server.py.
C28_ServerOnly == prog = "server" => C28_UnknownOrder

\* C28 for the recognized statuses, in both snapshots.
C28_RecognizedStatus ==
    \A id \in OrderIds :
        NoSuchOrder(id) =>
            \A st \in (IF prog = "server" THEN StatusInputs ELSE MainStatusInputs) :
                Recognized(st) => UnknownOrderAnswer(id, st)

\* C29: in every state of server.py, for a user whose cart has lines, none
\* of a product the catalog still holds, create_order with a saved address
\* succeeds: it stores one more order, of that user, with no item and total
\* 0, and leaves the user's cart without lines.
C29_EmptyOrder ==
    prog = "server" =>
        \A c \in Shoppers, a \in AddrIds :
            (/\ ServerCart(Store, c) # <<>>
             /\ LiveLines(ServerCart(Store, c)) = <<>>
             /\ HasAddress(c, a)) =>
                LET out == Run(Store, req_create_order(c, a, "COD", "0B", 1))
                    n == Len(dbOrders) + 1
                IN  /\ out.r.code = 200
                    /\ Len(out.S.orders) = n
                    /\ SubSeq(out.S.orders, 1, n - 1) = dbOrders
                    /\ out.S.orders[n].user_id = c
                    /\ out.S.orders[n].items = <<>>
                    /\ out.S.orders[n].total = 0
                    /\ out.S.orders[n].status = "confirmed"
                    /\ ServerCart(out.S, c) = <<>>

\* A create_order has just succeeded and the last order stored has no item.
C29_Witness ==
    /\ prog = "server"
    /\ last.op = "create_order" /\ last.code = 200
    /\ dbOrders # <<>>
    /\ dbOrders[Len(dbOrders)].items = <<>>
    /\ dbOrders[Len(dbOrders)].total = 0
    /\ ServerCart(Store, last.caller) = <<>>

\* The stored orders with identifier id that c placed.
OwnOrders(c, id) == SelectSeq(dbOrders, LAMBDA o : o.id = id /\ o.user_id = c)

\* The callers get_current_user finds a user for.
KnownCallers == {c \in OrderCallers : c \in UserIds /\ dbUsers[c].present}

\* C30: in every state of server.py, get_order changes nothing; it answers
\* an order only to the user who placed it, and to every other user, an
\* admin included, "Order not found", as for an identifier no order has.
C30_OwnerOnly ==
    prog = "server" =>
        \A c \in KnownCallers, id \in OrderIds :
            LET out == Run(Store, req_status("get_order", c, id, ""))
            IN  /\ out.S = Store
                /\ IF OwnOrders(c, id) = <<>>
                   THEN out.r.code = 404 /\ out.r.detail = "Order not found"
                   ELSE /\ out.r.code = 200
                        /\ out.r.body = OwnOrders(c, id)[1]
                        /\ out.r.body.user_id = c

\* The admin's get_order has been answered "Order not found" while u1's
\* order is stored.
C30_Witness ==
    /\ prog = "server"
    /\ last.op = "get_order" /\ last.caller = "adm"
    /\ last.code = 404 /\ last.detail = "Order not found"
    /\ \E i \in 1..Len(dbOrders) : dbOrders[i].user_id = "u1"
====
